---- MODULE Spec2Model ----
(***************************************************************************)
(* Event ingestion pipeline of the Atlas dashboard: the PowPeg ingestion   *)
(* script (fetch_powpeg.py) and the Flyover ingestion script               *)
(* (fetch_flyover.py).  One run of a script is a sequence of steps         *)
(* (resolve the fetch window, fetch, decode, enrich, merge, write the      *)
(* dataset files, write the cursor file); the chain behind the explorer    *)
(* API is the environment and may grow or reorganise its tip block between *)
(* any two steps.                                                          *)
(***************************************************************************)
EXTENDS Integers, Sequences, FiniteSets, TLC

\* ---------------------------------------------------------------------------
\* Program constants
\* ---------------------------------------------------------------------------
MIN_BLOCK == 7430000
REORG_BUFFER == 10
CHUNK_SIZE == 200000
\* range(3) of the retry loops
MAX_ATTEMPTS == 3
\* RATE_LIMIT_DELAY of each script, in milliseconds
RATE_LIMIT_DELAY(s) == IF s = "powpeg" THEN 150 ELSE 300
\* time.sleep(0.5) after a chunk, in milliseconds
CHUNK_SLEEP == 500
\* time.sleep(2 * (attempt + 1)) before a retry, in milliseconds
Backoff(a) == 2000 * (a + 1)

\* ---------------------------------------------------------------------------
\* Bounds of the model
\* ---------------------------------------------------------------------------
\* runs started per behaviour
MaxRuns == 2
\* blocks mined on top of the initial tip
MaxMine == 2
\* reorganisations of the tip block
MaxReorg == 1
\* runs of check_alerts.py
MaxChecks == 4
\* runs of fetch_route_health.py
MaxFetches == 3
\* page size of the explorer's address-logs endpoint
PageSize == 2
\* length of the lists the merge engine is exercised on
MaxLen == 3
\* pages a page source serves before it serves an empty page
MaxPages == 3
\* hex digits of a 32-byte word of the model (the chain's words have 64)
WordLen == 2
\* hex digits of an address (the chain's addresses have 40)
AddrLen == 1

\* ---------------------------------------------------------------------------
\* Small helpers
\* ---------------------------------------------------------------------------
Max2(a, b) == IF a >= b THEN a ELSE b
Min2(a, b) == IF a <= b THEN a ELSE b

Range(s) == {s[i] : i \in 1..Len(s)}

\* keys (tx_hash) of a list of records
Keys(s) == {s[i].tx_hash : i \in 1..Len(s)}

\* no two positions of the list carry the same tx_hash
NoDupKeys(s) == \A i, j \in 1..Len(s) : s[i].tx_hash = s[j].tx_hash => i = j

\* sequences over S of length at most n
SeqUpTo(S, n) == UNION {[1..k -> S] : k \in 0..n}

\* ---------------------------------------------------------------------------
\* The two ingestion sources, their event kinds and dataset files
\* ---------------------------------------------------------------------------
Sources == {"powpeg", "flyover"}

AllCats == {"pegins", "pegouts", "penalties", "refunds"}

\* dataset files a source writes
Cats(s) == IF s = "powpeg" THEN {"pegins", "pegouts"} ELSE AllCats

\* topic-0 signatures the contracts of a source emit ("Unknown" stands for
\* any signature that is not in the EVENTS table)
ChainKinds(s) ==
    IF s = "powpeg"
    THEN {"pegin_btc", "release_request_received"}
    ELSE {"CallForUser", "PegOutDeposit", "Penalized", "PegOutUserRefunded",
          "PegInRegistered", "PegOutRefunded", "Unknown"}

\* EVENTS: the known-signature table of fetch_flyover.py
EVENTS == {"CallForUser", "PegOutDeposit", "PegOutRefunded", "Penalized",
           "PegOutUserRefunded", "PegInRegistered"}

\* dataset an event kind is routed to ("" for kinds that are not saved)
CatOf(k) ==
    CASE k \in {"pegin_btc", "CallForUser"} -> "pegins"
      [] k \in {"release_request_received", "PegOutDeposit"} -> "pegouts"
      [] k = "Penalized" -> "penalties"
      [] k = "PegOutUserRefunded" -> "refunds"
      [] OTHER -> ""

EmptyData == [c \in AllCats |-> <<>>]

\* ---------------------------------------------------------------------------
\* Merge/dedup engine
\* ---------------------------------------------------------------------------
\* by_key[e.get(key)] = e on an insertion-ordered dict: an existing key keeps
\* its position and takes the new record, a new key goes to the end
DictPut(acc, e) ==
    IF \E i \in 1..Len(acc) : acc[i].tx_hash = e.tx_hash
    THEN [i \in 1..Len(acc) |-> IF acc[i].tx_hash = e.tx_hash THEN e ELSE acc[i]]
    ELSE Append(acc, e)

RECURSIVE DictFromList(_, _)
DictFromList(acc, s) ==
    IF s = <<>> THEN acc ELSE DictFromList(DictPut(acc, Head(s)), Tail(s))

\* merge without the dict: the two lists one after the other
merge_events_concat(existing, new) == existing \o new

\* merge in which the record already present is kept on a key collision
merge_events_keep_existing(existing, new) ==
    DictFromList(DictFromList(<<>>, new), existing)

\* by_key = {e.get(key): e for e in existing}; for e in new: by_key[...] = e;
\* list(by_key.values())
merge_events(existing, new) == DictFromList(DictFromList(<<>>, existing), new)

\* the record the dict holds under key k: the last one of the list with that key
LastWithKey(s, k) ==
    LET i == CHOOSE i \in 1..Len(s) :
                 /\ s[i].tx_hash = k
                 /\ \A j \in (i + 1)..Len(s) : s[j].tx_hash # k
    IN s[i]

\* dedup in which a key takes the record seen last and an empty key is kept
dedup_last_wins(records) == DictFromList(<<>>, records)

\* tx_hash 0 stands for the empty string
RECURSIVE DedupFrom(_, _, _)
DedupFrom(seen, result, records) ==
    IF records = <<>> THEN result
    ELSE LET r == Head(records) IN
         IF r.tx_hash # 0 /\ r.tx_hash \notin seen
         THEN DedupFrom(seen \cup {r.tx_hash}, Append(result, r), Tail(records))
         ELSE DedupFrom(seen, result, Tail(records))

dedup_by_tx_hash(records) == DedupFrom({}, <<>>, records)

\* list.sort(key=block_number): stable, so a record goes after the records
\* already placed whose block number is not larger
InsertByBlock(s, r) ==
    LET k == Cardinality({i \in 1..Len(s) : s[i].block_number <= r.block_number})
    IN SubSeq(s, 1, k) \o <<r>> \o SubSeq(s, k + 1, Len(s))

RECURSIVE SortFrom(_, _)
SortFrom(acc, s) ==
    IF s = <<>> THEN acc ELSE SortFrom(InsertByBlock(acc, Head(s)), Tail(s))

SortByBlock(s) == SortFrom(<<>>, s)

\* ---------------------------------------------------------------------------
\* Decoding (the payload of a log is abstracted to one value)
\* ---------------------------------------------------------------------------
\* parse_pegin_log, parse_pegout_log and the Flyover parsers: the record takes
\* the transaction hash, the block number and the decoded payload of the log;
\* the timestamp is not part of a decoded record (0 = absent or empty)
ParseLog(log) ==
    [tx_hash |-> log.tx, block_number |-> log.blk, value |-> log.val,
     block_timestamp |-> 0]

ParseAll(logs) == [i \in 1..Len(logs) |-> ParseLog(logs[i])]

\* max_block that looks at the first record only
MaxBlockFirstOnly(m, recs) ==
    IF recs = <<>> THEN m ELSE Max2(m, Head(recs).block_number)

\* max_block = start_block; for rec in ...: max_block = max(max_block, block)
RECURSIVE MaxBlock(_, _)
MaxBlock(m, recs) ==
    IF recs = <<>> THEN m
    ELSE MaxBlock(Max2(m, Head(recs).block_number), Tail(recs))

\* a window that starts at the cursor itself
StartBlockNoBuffer(cb) ==
    IF cb # 0 THEN Max2(cb, MIN_BLOCK) ELSE MIN_BLOCK

\* start block of the fetch window
StartBlock(cb) ==
    IF cb # 0 THEN Max2(cb - REORG_BUFFER, MIN_BLOCK) ELSE MIN_BLOCK

\* ---------------------------------------------------------------------------
\* The explorer API, answering from the chain as it is at the time of the call
\* ---------------------------------------------------------------------------
LogBefore(a, b) == a.blk < b.blk \/ (a.blk = b.blk /\ a.idx < b.idx)

RECURSIVE SortAsc(_)
SortAsc(S) ==
    IF S = {} THEN <<>>
    ELSE LET m == CHOOSE x \in S : \A y \in S \ {x} : LogBefore(x, y)
         IN <<m>> \o SortAsc(S \ {m})

RECURSIVE SortDesc(_)
SortDesc(S) ==
    IF S = {} THEN <<>>
    ELSE LET m == CHOOSE x \in S : \A y \in S \ {x} : LogBefore(y, x)
         IN <<m>> \o SortDesc(S \ {m})

\* eth_getLogs with fromBlock, toBlock and a topic-0 filter
EthGetLogs(ch, kind, from, to) ==
    SortAsc({l \in ch : l.kind = kind /\ l.blk >= from /\ l.blk <= to})

\* address-logs endpoint: newest first, PageSize items per page, keyset
\* continuation token (the position of the last item of the page)
NoToken == [blk |-> 0, idx |-> 0]

LogsAfterToken(ch, tok) ==
    SortDesc({l \in ch : tok = NoToken \/ LogBefore(l, tok)})

PageItems(ch, tok) ==
    LET all == LogsAfterToken(ch, tok)
    IN SubSeq(all, 1, Min2(PageSize, Len(all)))

PageNext(ch, tok) ==
    LET items == PageItems(ch, tok)
    IN IF Len(items) = PageSize
       THEN [blk |-> items[Len(items)].blk, idx |-> items[Len(items)].idx]
       ELSE NoToken

\* ---------------------------------------------------------------------------
\* Raw logs and their decoders.  A hex string is the sequence of its digits
\* without the "0x" prefix; None and "" are both the empty sequence.  A raw
\* log is [transaction_hash, block_number, topics, data, decoded], where
\* decoded.parameters maps the names of the explorer's decoded parameters to
\* their values and has an empty domain when the log carries no decoded
\* payload.  A display amount raw / 1e<exp> is kept as the exact quotient
\* [num |-> raw, exp |-> exp]
\* ---------------------------------------------------------------------------
RECURSIVE HexValue(_)
\* int(s, 16)
HexValue(s) ==
    IF s = <<>> THEN 0
    ELSE 16 * HexValue(SubSeq(s, 1, Len(s) - 1)) + s[Len(s)]

\* s[-n:]
LastChars(s, n) == SubSeq(s, Max2(1, Len(s) - n + 1), Len(s))

\* the value of the same word read as a two's-complement signed integer
Signed(v) == IF 2 * v >= 16 ^ WordLen THEN v - 16 ^ WordLen ELSE v

\* raw / 1e<exp>
Display(raw, exp) == [num |-> raw, exp |-> exp]

\* the digits of a signature hash; each signature has its own
SigCode(name) ==
    CASE name = "pegin_btc" -> 1
      [] name = "release_request_received" -> 2
      [] name = "CallForUser" -> 3
      [] name = "PegOutDeposit" -> 4
      [] name = "PegOutRefunded" -> 5
      [] name = "Penalized" -> 6
      [] name = "PegOutUserRefunded" -> 7
      [] name = "PegInRegistered" -> 8
      [] OTHER -> 9

\* EVENTS[name]["topic0"], PEGIN_BTC_TOPIC0, RELEASE_REQUEST_RECEIVED_TOPIC0
Topic0(name) == [i \in 1..WordLen |-> SigCode(name)]

\* topic_to_event.get(topic0), "" for None
topic_to_event(topic0) ==
    IF \E name \in EVENTS : Topic0(name) = topic0
    THEN CHOOSE name \in EVENTS : Topic0(name) = topic0
    ELSE ""

\* the event of a raw log handed to a parser: the Flyover table, and the
\* topic0 filters of the two PowPeg collectors
topic_to_name(topic0) ==
    IF topic0 = Topic0("pegin_btc") THEN "pegin_btc"
    ELSE IF topic0 = Topic0("release_request_received")
    THEN "release_request_received"
    ELSE topic_to_event(topic0)

\* _address_from_topic
address_from_topic(topic) ==
    IF topic = <<>> THEN <<>> ELSE LastChars(topic, AddrLen)

\* topics[i] if len(topics) > i and topics[i] else ""
TopicAt(topics, i) ==
    IF Len(topics) > i /\ topics[i + 1] # <<>> THEN topics[i + 1] ELSE <<>>

\* a word read without the length test, from whatever digits are there
ReadWordUnguarded(raw, k) ==
    HexValue(SubSeq(raw, k * WordLen + 1, Min2((k + 1) * WordLen, Len(raw))))

\* int(raw[64 * k:64 * (k + 1)], 16) if len(raw) >= 64 * (k + 1) else 0
ReadWord(raw, k) ==
    IF Len(raw) >= (k + 1) * WordLen
    THEN HexValue(SubSeq(raw, k * WordLen + 1, (k + 1) * WordLen))
    ELSE 0

\* params.get(name, default)
Param(params, name, default) ==
    IF name \in DOMAIN params THEN params[name] ELSE default

parse_pegin_log(log) ==
    [tx_hash |-> log.transaction_hash,
     block_number |-> log.block_number,
     to_address |-> address_from_topic(TopicAt(log.topics, 1)),
     value_rbtc |-> Display(ReadWord(log.data, 0), 8)]

parse_pegout_log(log) ==
    [tx_hash |-> log.transaction_hash,
     block_number |-> log.block_number,
     from_address |-> address_from_topic(TopicAt(log.topics, 1)),
     value_rbtc |-> Display(ReadWord(log.data, 1), 18)]

parse_call_for_user(log) ==
    LET params == log.decoded.parameters IN
    IF DOMAIN params # {}
    THEN [event |-> "CallForUser",
          tx_hash |-> log.transaction_hash,
          block_number |-> log.block_number,
          from_address |-> Param(params, "from", <<>>),
          dest_address |-> Param(params, "dest", <<>>),
          gas_limit |-> Param(params, "gasLimit", 0),
          value_wei |-> Param(params, "value", 0),
          value_rbtc |-> Display(Param(params, "value", 0), 18),
          success |-> Param(params, "success", FALSE),
          quote_hash |-> Param(params, "quoteHash", <<>>)]
    ELSE [event |-> "CallForUser",
          tx_hash |-> log.transaction_hash,
          block_number |-> log.block_number,
          from_address |-> address_from_topic(TopicAt(log.topics, 1)),
          dest_address |-> address_from_topic(TopicAt(log.topics, 2)),
          value_wei |-> 0,
          value_rbtc |-> Display(0, 18),
          success |-> FALSE,
          quote_hash |-> <<>>,
          raw_data |-> log.data]

parse_pegout_deposit(log) ==
    LET params == log.decoded.parameters IN
    IF DOMAIN params # {}
    THEN [event |-> "PegOutDeposit",
          tx_hash |-> log.transaction_hash,
          block_number |-> log.block_number,
          quote_hash |-> Param(params, "quoteHash", <<>>),
          sender |-> Param(params, "sender", <<>>),
          amount_wei |-> Param(params, "amount", 0),
          amount_rbtc |-> Display(Param(params, "amount", 0), 18),
          timestamp |-> Param(params, "timestamp", 0)]
    ELSE [event |-> "PegOutDeposit",
          tx_hash |-> log.transaction_hash,
          block_number |-> log.block_number,
          quote_hash |-> TopicAt(log.topics, 1),
          sender |-> address_from_topic(TopicAt(log.topics, 2)),
          amount_wei |-> ReadWord(log.data, 0),
          amount_rbtc |-> Display(ReadWord(log.data, 0), 18),
          timestamp |-> ReadWord(log.data, 1)]

parse_pegout_refunded(log) ==
    LET params == log.decoded.parameters IN
    IF DOMAIN params # {}
    THEN [event |-> "PegOutRefunded",
          tx_hash |-> log.transaction_hash,
          block_number |-> log.block_number,
          quote_hash |-> Param(params, "quoteHash", <<>>)]
    ELSE [event |-> "PegOutRefunded",
          tx_hash |-> log.transaction_hash,
          block_number |-> log.block_number,
          quote_hash |-> TopicAt(log.topics, 1)]

parse_penalized(log) ==
    LET params == log.decoded.parameters IN
    IF DOMAIN params # {}
    THEN [event |-> "Penalized",
          tx_hash |-> log.transaction_hash,
          block_number |-> log.block_number,
          lp_address |-> Param(params, "liquidityProvider", <<>>),
          penalty_wei |-> Param(params, "penalty", 0),
          penalty_rbtc |-> Display(Param(params, "penalty", 0), 18),
          quote_hash |-> Param(params, "quoteHash", <<>>)]
    ELSE [event |-> "Penalized",
          tx_hash |-> log.transaction_hash,
          block_number |-> log.block_number,
          lp_address |-> <<>>,
          penalty_wei |-> 0,
          penalty_rbtc |-> Display(0, 18),
          quote_hash |-> <<>>,
          raw_data |-> log.data]

parse_pegout_user_refunded(log) ==
    LET params == log.decoded.parameters IN
    IF DOMAIN params # {}
    THEN [event |-> "PegOutUserRefunded",
          tx_hash |-> log.transaction_hash,
          block_number |-> log.block_number,
          quote_hash |-> Param(params, "quoteHash", <<>>),
          value_wei |-> Param(params, "value", 0),
          value_rbtc |-> Display(Param(params, "value", 0), 18),
          user_address |-> Param(params, "userAddress", <<>>)]
    ELSE [event |-> "PegOutUserRefunded",
          tx_hash |-> log.transaction_hash,
          block_number |-> log.block_number,
          quote_hash |-> TopicAt(log.topics, 1),
          value_wei |-> 0,
          value_rbtc |-> Display(0, 18),
          user_address |-> <<>>,
          raw_data |-> log.data]

parse_pegin_registered(log) ==
    LET params == log.decoded.parameters IN
    IF DOMAIN params # {}
    THEN [event |-> "PegInRegistered",
          tx_hash |-> log.transaction_hash,
          block_number |-> log.block_number,
          quote_hash |-> Param(params, "quoteHash", <<>>),
          transferred_amount_wei |-> Param(params, "transferredAmount", 0),
          transferred_amount_rbtc |->
              Display(Param(params, "transferredAmount", 0), 18)]
    ELSE [event |-> "PegInRegistered",
          tx_hash |-> log.transaction_hash,
          block_number |-> log.block_number,
          quote_hash |-> TopicAt(log.topics, 1),
          transferred_amount_wei |-> ReadWord(log.data, 0),
          transferred_amount_rbtc |-> Display(ReadWord(log.data, 0), 18)]

\* parsers[event_name](log); the two PowPeg parsers under their events' names
Parse(name, log) ==
    CASE name = "pegin_btc" -> parse_pegin_log(log)
      [] name = "release_request_received" -> parse_pegout_log(log)
      [] name = "CallForUser" -> parse_call_for_user(log)
      [] name = "PegOutDeposit" -> parse_pegout_deposit(log)
      [] name = "PegOutRefunded" -> parse_pegout_refunded(log)
      [] name = "Penalized" -> parse_penalized(log)
      [] name = "PegOutUserRefunded" -> parse_pegout_user_refunded(log)
      [] name = "PegInRegistered" -> parse_pegin_registered(log)

\* ---------------------------------------------------------------------------
\* The raw logs the decoders are exercised on
\* ---------------------------------------------------------------------------
ParsedKinds == {"pegin_btc", "release_request_received"} \cup EVENTS

\* indexed parameters of each event, from its signature
IndexedCount(name) ==
    CASE name \in {"pegin_btc", "CallForUser", "PegOutDeposit"} -> 2
      [] name = "Penalized" -> 0
      [] OTHER -> 1

\* topic words: an address in the low digits under clean or dirty padding
TopicWords ==
    {[i \in 1..WordLen |-> IF i <= WordLen - AddrLen THEN 0 ELSE 10],
     [i \in 1..WordLen |-> IF i <= WordLen - AddrLen THEN 15 ELSE 11]}

\* data words: a small value, and two values with the top bit set
DataWords ==
    {[i \in 1..WordLen |-> IF i = 1 THEN hi ELSE 1] : hi \in {0, 8, 15}}

NoParameters == [n \in {} |-> 0]

\* what the explorer's decoder makes of the complete log
ApiDecoded(name, t1, t2, w1, w2) ==
    CASE name = "CallForUser" ->
            [from |-> LastChars(t1, AddrLen), dest |-> LastChars(t2, AddrLen),
             gasLimit |-> HexValue(w1), value |-> HexValue(w2),
             success |-> TRUE, quoteHash |-> t1]
      [] name = "PegOutDeposit" ->
            [quoteHash |-> t1, sender |-> LastChars(t2, AddrLen),
             amount |-> HexValue(w1), timestamp |-> HexValue(w2)]
      [] name = "PegOutRefunded" -> [quoteHash |-> t1]
      [] name = "Penalized" ->
            [liquidityProvider |-> LastChars(w1, AddrLen),
             penalty |-> HexValue(w2), quoteHash |-> t1]
      [] name = "PegOutUserRefunded" ->
            [quoteHash |-> t1, value |-> HexValue(w1),
             userAddress |-> LastChars(w2, AddrLen)]
      [] name = "PegInRegistered" ->
            [quoteHash |-> t1, transferredAmount |-> Signed(HexValue(w1))]

\* the complete log of an event, without a decoded payload
FullLog(name, t1, t2, w1, w2) ==
    [transaction_hash |-> 1,
     block_number |-> MIN_BLOCK,
     topics |-> <<Topic0(name)>> \o SubSeq(<<t1, t2>>, 1, IndexedCount(name)),
     data |-> w1 \o w2,
     decoded |-> [parameters |-> NoParameters]]

\* the log with its first n indexed topics only, the topics at the positions
\* in blank empty, and the first len digits of its data
Truncated(log, n, blank, len) ==
    [log EXCEPT
        !.topics = [i \in 1..(n + 1) |->
                       IF i - 1 \in blank THEN <<>> ELSE log.topics[i]],
        !.data = SubSeq(log.data, 1, len)]

\* ---------------------------------------------------------------------------
\* check_alerts.py: deduplication of notifications.  Times are in seconds.
\* ---------------------------------------------------------------------------
HEALTHY == "healthy"
WARNING == "warning"
CRITICAL == "critical"

Severities == {HEALTHY, WARNING, CRITICAL}

SEVERITY_ORDER(severity) ==
    CASE severity = HEALTHY -> 0
      [] severity = WARNING -> 1
      [] severity = CRITICAL -> 2

\* minutes between repeat notifications
DEFAULT_COOLDOWNS(severity) == IF severity = WARNING THEN 240 ELSE 60

\* state.get(rule) of a rule the state file has no entry for
NoEntry == [known |-> FALSE, severity |-> HEALTHY, timestamp |-> 0]

DoSend(is_recovery) == [send |-> TRUE, is_recovery |-> is_recovery]
DontSend == [send |-> FALSE, is_recovery |-> FALSE]

\* should_send in which a recovery is never notified
should_send_no_recovery(severity, prev, now_ts) ==
    IF severity = HEALTHY THEN DontSend
    ELSE IF ~prev.known THEN DoSend(FALSE)
    ELSE IF SEVERITY_ORDER(severity) > SEVERITY_ORDER(prev.severity)
    THEN DoSend(FALSE)
    ELSE IF now_ts - prev.timestamp >= DEFAULT_COOLDOWNS(severity) * 60
    THEN DoSend(FALSE)
    ELSE DontSend

\* should_send in which an escalation waits for the cooldown as well
should_send_escalation_waits(severity, prev, now_ts) ==
    IF ~prev.known THEN (IF severity # HEALTHY THEN DoSend(FALSE) ELSE DontSend)
    ELSE IF severity = HEALTHY /\ prev.severity # HEALTHY THEN DoSend(TRUE)
    ELSE IF severity = HEALTHY THEN DontSend
    ELSE IF now_ts - prev.timestamp >= DEFAULT_COOLDOWNS(severity) * 60
    THEN DoSend(FALSE)
    ELSE DontSend

\* should_send(rule, severity, state, cooldowns, now_ts), with prev the entry
\* state.get(rule) and the default cooldowns
should_send(severity, prev, now_ts) ==
    IF ~prev.known
    THEN (IF severity # HEALTHY THEN DoSend(FALSE) ELSE DontSend)
    ELSE IF severity = HEALTHY /\ prev.severity # HEALTHY THEN DoSend(TRUE)
    ELSE IF severity = HEALTHY THEN DontSend
    ELSE IF SEVERITY_ORDER(severity) > SEVERITY_ORDER(prev.severity)
    THEN DoSend(FALSE)
    ELSE IF now_ts - prev.timestamp >= DEFAULT_COOLDOWNS(severity) * 60
    THEN DoSend(FALSE)
    ELSE DontSend

\* a timestamp that is reset by every run
StoredTimestampNow(send, prev, now_ts) == now_ts

\* "timestamp": now_ts if send else prev_ts, where prev_ts is
\* state.get(rule, {}).get("timestamp", now_ts)
StoredTimestamp(send, prev, now_ts) ==
    IF send THEN now_ts
    ELSE IF prev.known THEN prev.timestamp ELSE now_ts

\* a summary with every run
DailySummaryAlways(now_ts, last_sent) == TRUE

\* maybe_send_daily_summary goes on unless now_ts - last_sent < 86400
DailySummaryDue(now_ts, last_sent) == ~(now_ts - last_sent < 86400)

\* ---------------------------------------------------------------------------
\* fetch_route_health.py: rolling history and provider changes.  An instant
\* is [sec, micro]; its text is datetime.isoformat() with "+00:00" replaced
\* by "Z", which has no fraction when the microsecond is 0.
\* ---------------------------------------------------------------------------
MAX_HISTORY == 84

\* a >= b on the texts of two instants: the date and time down to the second
\* have a fixed width; after them comes "Z" or "." and six digits, and "Z"
\* sorts above "."
IsoGeq(a, b) ==
    IF a.sec # b.sec THEN a.sec > b.sec
    ELSE IF a.micro = 0 THEN TRUE
    ELSE IF b.micro = 0 THEN FALSE
    ELSE a.micro >= b.micro

\* datetime.now(timezone.utc) - timedelta(days=days)
DaysBefore(now, days) == [sec |-> now.sec - days * 86400, micro |-> now.micro]

\* [h for h in history if h.get("t", "") >= cutoff_str]
Since(list, cutoff) ==
    LET Kept(h) == IsoGeq(h.t, cutoff) IN SelectSeq(list, Kept)

\* the last n entries of a list
LastEntries(list, n) ==
    IF Len(list) > n THEN SubSeq(list, Len(list) - n + 1, Len(list)) ELSE list

\* the entry append_history builds: providers enabled = up
HistoryEntry(providers, now) ==
    [t |-> now, swap_api |-> IF providers # {} THEN "up" ELSE "down",
     up |-> providers]

append_history(history, providers, now) ==
    LastEntries(Since(Append(history, HistoryEntry(providers, now)),
                      DaysBefore(now, 7)),
                MAX_HISTORY)

\* the orders in which a loop may walk a set
Orderings(S) ==
    {q \in [1..Cardinality(S) -> S] :
        \A i, j \in 1..Cardinality(S) : q[i] = q[j] => i = j}

ChangesOf(order, now, change) ==
    [i \in 1..Len(order) |->
        [t |-> now, provider |-> order[i], change |-> change]]

\* the lists detect_provider_changes may return: the added providers in the
\* order of one loop over curr_ids - prev_ids, then the removed ones in the
\* order of one loop over prev_ids - curr_ids
detect_provider_changes(prev_ids, curr_ids, now) ==
    {ChangesOf(a, now, "added") \o ChangesOf(r, now, "removed") :
        a \in Orderings(curr_ids \ prev_ids),
        r \in Orderings(prev_ids \ curr_ids)}

\* ---------------------------------------------------------------------------
\* State
\* ---------------------------------------------------------------------------
VARIABLES
    src,           \* the ingestion script this behaviour runs
    chain,         \* logs of the source's contract on the canonical chain
    tip,           \* current chain height
    nextTx,        \* hash of the next new transaction
    mined,         \* blocks mined so far
    reorgs,        \* reorganisations so far
    cursor,        \* .cursor_<src>.json: last_block, 0 when absent or unreadable
    data,          \* the dataset files: category -> list of records
    pc,            \* position of the run
    runs,          \* runs started so far
    full_mode,     \* "--full" in sys.argv
    cursor_block,  \* main: cursor_block (0 = None)
    start_block,   \* main: start_block
    start,         \* fetch_*_logs: start
    latest,        \* fetch_*_logs: latest
    attempt,       \* fetch_*_logs: attempt
    events,        \* fetch_*_logs: events / fetch_all_logs: all_items
    params,        \* fetch_all_logs: params (continuation token)
    new,           \* main: new_pegins, new_pegouts, new_penalties, new_refunds
    max_block,     \* main: max_block
    out,           \* main: the lists about to be written
    wi,            \* position in the save sequence
    preCursor,     \* cursor when the run started
    preData,       \* dataset files when the run started
    decoded,       \* block numbers of the records the run decoded
    partial,       \* a fetch of the run gave up and returned what it had
    written,       \* dataset files the run has written
    cursorWrites,  \* calls of save_cursor in the run
    result,        \* "none", "running", "ok" or "failed"
    failedAt,      \* step at which the run raised
    merger,        \* merge engine exercised on its own: the lists D and B, the
                   \* results of the first and second application, the stage
    queried,       \* fetch_*_logs: block ranges queried so far by this call
    latestCalls,   \* eth_blockNumber calls answered in the run
    sinceCall,     \* ms slept since the last answered call (-1: no call yet)
    lastGap,       \* shortest sleep before an answered call of the last step
    lookups,       \* timestamp lookups the run issued, in order, each with
                   \* whether it was answered
    pages,         \* fetch_all_logs against any page source: pages received
    procPc,        \* two invocations: position of each
    procCursorBlock, \* two invocations: cursor_block of each
    procNew,       \* two invocations: new_pegins, new_pegouts of each
    procOut,       \* two invocations: pegins, pegouts of each
    procWrote,     \* two invocations: keys each has written, per dataset
    overlap,       \* an invocation started while the other was running
    decoder,       \* decoders on their own: the raw logs handed to them, the
                   \* position of the next one, the records returned so far,
                   \* max_block of the classification loop, and the state
                   \* "off", "parse", "classify", "raised" or "done"
    monitor        \* check_alerts.py and fetch_route_health.py on their own:
                   \* the clock, .alert_state.json or route_health.json, and
                   \* what each run so far evaluated and did

chainVars == <<chain, tip, nextTx, mined, reorgs>>
diskVars == <<cursor, data>>
fetchVars == <<start, latest, attempt, events, params>>
mainVars == <<full_mode, cursor_block, start_block, new, max_block, out, wi>>
histVars == <<preCursor, preData, decoded, partial, written, cursorWrites>>
mergeVars == <<merger>>

\* the merge engine about to be applied to the lists d and b
Merger(d, b, stage) ==
    [mD |-> d, mB |-> b, mOut |-> <<>>, mOut2 |-> <<>>, mStage |-> stage]

mD == merger.mD
mB == merger.mB
mOut == merger.mOut
mOut2 == merger.mOut2
mStage == merger.mStage
obsVars == <<queried, latestCalls, sinceCall, lastGap, lookups>>
procVars == <<procPc, procCursorBlock, procNew, procOut, procWrote, overlap>>
sideVars == <<pages, procVars, decoder, monitor>>

vars == <<src, chain, tip, nextTx, mined, reorgs, cursor, data, pc, runs,
          full_mode, cursor_block, start_block, start, latest, attempt, events,
          params, new, max_block, out, wi, preCursor, preData, decoded, partial,
          written, cursorWrites, result, failedAt,
          merger,
          queried, latestCalls, sinceCall, lastGap, lookups,
          pages, procPc, procCursorBlock, procNew, procOut, procWrote,
          overlap, decoder, monitor>>

\* height of the chain when the model starts: the first window spans two chunks
InitTip == MIN_BLOCK + CHUNK_SIZE

InitRun ==
    /\ pc = "idle"
    /\ runs = 0
    /\ full_mode = FALSE
    /\ cursor_block = 0
    /\ start_block = 0
    /\ start = 0
    /\ latest = 0
    /\ attempt = 0
    /\ events = <<>>
    /\ params = NoToken
    /\ new = EmptyData
    /\ max_block = 0
    /\ out = EmptyData
    /\ wi = 1
    /\ preCursor = 0
    /\ preData = EmptyData
    /\ decoded = {}
    /\ partial = FALSE
    /\ written = {}
    /\ cursorWrites = 0
    /\ result = "none"
    /\ failedAt = ""
    /\ queried = <<>>
    /\ latestCalls = 0
    /\ sinceCall = -1
    /\ lastGap = RATE_LIMIT_DELAY(src)
    /\ lookups = <<>>

InitMergeOff ==
    merger = Merger(<<>>, <<>>, "off")

\* the two overlapping runs of the concurrency model
Procs == {1, 2}

InitProcs(at) ==
    /\ procPc = [p \in Procs |-> at]
    /\ procCursorBlock = [p \in Procs |-> 0]
    /\ procNew = [p \in Procs |-> EmptyData]
    /\ procOut = [p \in Procs |-> EmptyData]
    /\ procWrote = [p \in Procs |-> [c \in AllCats |-> {}]]
    /\ overlap = FALSE

\* the decoders about to be handed logs, with max_block at m
Decoder(logs, m, state) ==
    [rawLogs |-> logs, li |-> 1, parsed |-> <<>>, parsedMax |-> m,
     decodeState |-> state]

rawLogs == decoder.rawLogs
li == decoder.li
parsed == decoder.parsed
parsedMax == decoder.parsedMax
decodeState == decoder.decodeState

InitDecodeOff == decoder = Decoder(<<>>, 0, "off")

\* neither monitoring script runs
InitMonitorOff == monitor = [mode |-> "off"]

InitSideOff ==
    /\ pages = <<>>
    /\ InitProcs("off")
    /\ InitDecodeOff
    /\ InitMonitorOff

InitDeployment ==
    /\ chain = {}
    /\ tip = InitTip
    /\ nextTx = 1
    /\ mined = 0
    /\ reorgs = 0
    /\ cursor = 0
    /\ data = EmptyData
    /\ InitRun

\* a fresh deployment of one of the scripts: no cursor file, no dataset file,
\* no tracked event on the chain yet
InitPipeline ==
    /\ src \in Sources
    /\ InitDeployment
    /\ InitMergeOff
    /\ InitSideOff

\* records the merge engine is exercised on
MergeRecords ==
    [tx_hash : 1..2, block_number : {MIN_BLOCK}, value : 1..2,
     block_timestamp : {0}]

\* the merge engine alone, on any two short lists of records
InitMergeEngine ==
    /\ src = "powpeg"
    /\ InitDeployment
    /\ \E d \in SeqUpTo(MergeRecords, MaxLen) :
       \E b \in SeqUpTo(MergeRecords, MaxLen) :
           merger = Merger(d, b, "in")
    /\ InitSideOff

Init == InitPipeline \/ InitMergeEngine

\* ---------------------------------------------------------------------------
\* The chain (environment)
\* ---------------------------------------------------------------------------
\* distance between consecutive blocks that carry events: more than the reorg
\* buffer, so that an incremental run re-reads the newest of them only
BlockGap == REORG_BUFFER + 1

\* the kind whose events a transaction may emit twice
TwiceKind(s) == IF s = "powpeg" THEN "pegin_btc" ELSE "CallForUser"

\* contents of a new block at height b: no event of the contract, one event
\* of any kind, or two events of one kind emitted by the same transaction t
BlockOptions(s, t, b) ==
    {{}}
    \cup {{[tx |-> t, idx |-> 0, blk |-> b, kind |-> k, val |-> 1]} :
            k \in ChainKinds(s)}
    \cup {{[tx |-> t, idx |-> 0, blk |-> b, kind |-> TwiceKind(s), val |-> 1],
           [tx |-> t, idx |-> 1, blk |-> b, kind |-> TwiceKind(s), val |-> 2]}}

\* the steps of a run that read the chain.  A run observes the chain in these
\* steps only, so a block that appears between two other steps is observed
\* exactly as if it had appeared just before the next of these steps; a
\* request that failed has observed nothing, so the same holds between the
\* attempts of one request
FetchPcs == {"pegin_latest", "pegin_chunk", "pegout_latest", "pegout_chunk",
             "fetch_page"}

Mine ==
    /\ pc \in FetchPcs
    /\ attempt = 0
    /\ mined < MaxMine
    /\ \E content \in BlockOptions(src, nextTx, tip + BlockGap) :
        /\ tip' = tip + BlockGap
        /\ chain' = chain \cup content
        /\ nextTx' = IF content = {} THEN nextTx ELSE nextTx + 1
    /\ mined' = mined + 1
    /\ UNCHANGED <<src, reorgs, diskVars, pc, runs, fetchVars, mainVars,
                   histVars, result, failedAt, mergeVars, sideVars, obsVars>>

\* the tip block is replaced by a block of the same height that either does
\* not include its transactions or includes them with another payload
Reorg ==
    /\ pc \in FetchPcs
    /\ attempt = 0
    /\ reorgs < MaxReorg
    /\ LET tipLogs == {l \in chain : l.blk = tip} IN
        /\ tipLogs # {}
        /\ \/ chain' = chain \ tipLogs
           \/ chain' = (chain \ tipLogs)
                         \cup {[l EXCEPT !.val = l.val + 2] : l \in tipLogs}
    /\ reorgs' = reorgs + 1
    /\ UNCHANGED <<src, tip, nextTx, mined, diskVars, pc, runs, fetchVars,
                   mainVars, histVars, result, failedAt, mergeVars, sideVars,
                   obsVars>>

\* ---------------------------------------------------------------------------
\* main: start of a run
\* ---------------------------------------------------------------------------
\* the cursor file read whatever the mode
load_cursor_always(full) == cursor

\* load_cursor() if not full_mode else None
load_cursor(full) == IF full THEN 0 ELSE cursor

Start ==
    /\ pc = "idle"
    /\ mStage = "off"
    /\ runs < MaxRuns
    /\ \E full \in BOOLEAN :
        /\ full_mode' = full
        /\ cursor_block' = load_cursor(full)
        /\ start_block' = StartBlock(load_cursor(full))
        /\ start' = StartBlock(load_cursor(full))
    /\ runs' = runs + 1
    /\ pc' = IF src = "powpeg" THEN "pegin_latest" ELSE "fetch_page"
    /\ latest' = 0
    /\ attempt' = 0
    /\ events' = <<>>
    /\ params' = NoToken
    /\ new' = EmptyData
    /\ max_block' = 0
    /\ out' = EmptyData
    /\ wi' = 1
    /\ preCursor' = cursor
    /\ preData' = data
    /\ decoded' = {}
    /\ partial' = FALSE
    /\ written' = {}
    /\ cursorWrites' = 0
    /\ result' = "running"
    /\ failedAt' = ""
    /\ queried' = <<>>
    /\ latestCalls' = 0
    /\ sinceCall' = -1
    /\ lastGap' = RATE_LIMIT_DELAY(src)
    /\ lookups' = <<>>
    /\ UNCHANGED <<src, chainVars, diskVars, mergeVars, sideVars>>

\* an uncaught exception ends the process
Abort(at) ==
    /\ pc' = "idle"
    /\ result' = "failed"
    /\ failedAt' = at

\* ---------------------------------------------------------------------------
\* What a run observes of the API
\* ---------------------------------------------------------------------------
\* time slept since the last answered call, counted up to the rate-limit delay
Slept(ms) ==
    IF sinceCall = -1 THEN -1 ELSE Min2(sinceCall + ms, RATE_LIMIT_DELAY(src))

\* a call was answered, and the code then sleeps ms before anything else
Called(ms) ==
    /\ lastGap' = IF sinceCall = -1 THEN RATE_LIMIT_DELAY(src) ELSE sinceCall
    /\ sinceCall' = Min2(ms, RATE_LIMIT_DELAY(src))

\* ---------------------------------------------------------------------------
\* fetch_powpeg.py: fetch_pegin_logs / fetch_pegout_logs
\* ---------------------------------------------------------------------------
\* the eth_blockNumber call at the head of a collector; it is not guarded by
\* a try, so a failure ends the run
ResolveLatest(p, nextp) ==
    /\ pc = p
    /\ \/ /\ latest' = tip
          /\ start' = start_block
          /\ events' = <<>>
          /\ attempt' = 0
          /\ pc' = nextp
          /\ queried' = <<>>
          /\ latestCalls' = latestCalls + 1
          /\ Called(0)
          /\ UNCHANGED <<result, failedAt>>
       \/ /\ Abort(p)
          /\ UNCHANGED <<start, latest, attempt, events, obsVars>>
    /\ UNCHANGED <<src, chainVars, diskVars, runs, params, mainVars, histVars,
                   mergeVars, sideVars, lookups>>

\* new_pegins = dedup_by_tx_hash([parse_pegin_log(log) for log in pegin_logs])
ReturnPegin(evs, gaveUp) ==
    /\ new' = [new EXCEPT !["pegins"] = dedup_by_tx_hash(ParseAll(evs))]
    /\ decoded' = decoded \cup {evs[i].blk : i \in 1..Len(evs)}
    /\ partial' = (partial \/ gaveUp)
    /\ max_block' = max_block
    /\ pc' = "pegout_latest"

\* new_pegouts = dedup_by_tx_hash(...), then max_block over both lists
ReturnPegout(evs, gaveUp) ==
    /\ new' = [new EXCEPT !["pegouts"] = dedup_by_tx_hash(ParseAll(evs))]
    /\ decoded' = decoded \cup {evs[i].blk : i \in 1..Len(evs)}
    /\ partial' = (partial \/ gaveUp)
    /\ max_block' = MaxBlock(start_block,
                             new["pegins"] \o dedup_by_tx_hash(ParseAll(evs)))
    /\ pc' = "timestamps"

\* back in main with the list the collector returned
Return(kind, evs, gaveUp) ==
    IF kind = "pegin_btc" THEN ReturnPegin(evs, gaveUp)
    ELSE ReturnPegout(evs, gaveUp)

\* the locals of a collector do not outlive its return
DropLocals ==
    /\ start' = 0
    /\ latest' = 0
    /\ attempt' = 0
    /\ events' = <<>>
    /\ queried' = <<>>

\* a chunk end that is not held back by latest
ChunkEndNoClamp(from, last) == from + CHUNK_SIZE - 1

\* to_block = min(start + CHUNK_SIZE - 1, latest)
ChunkEnd(from, last) == Min2(from + CHUNK_SIZE - 1, last)

\* one pass of `while start <= latest`: one eth_getLogs request (or one failed
\* attempt of it), or the exit of the loop
FetchChunk(p, kind) ==
    /\ pc = p
    /\ IF start <= latest
       THEN LET to_block == ChunkEnd(start, latest) IN
            \/ \* the request raised
               IF attempt < MAX_ATTEMPTS - 1
               THEN /\ attempt' = attempt + 1
                    /\ sinceCall' = Slept(Backoff(attempt))
                    /\ UNCHANGED <<start, latest, events, pc, new, max_block,
                                   decoded, partial, queried, lastGap>>
               ELSE /\ Return(kind, events, TRUE)
                    /\ DropLocals
                    /\ UNCHANGED <<sinceCall, lastGap>>
            \/ \* "error" in data
               /\ Return(kind, events, TRUE)
               /\ DropLocals
               /\ Called(0)
            \/ \* data["result"]
               /\ events' = events \o EthGetLogs(chain, kind, start, to_block)
               /\ start' = to_block + 1
               /\ attempt' = 0
               /\ queried' = Append(queried, <<start, to_block>>)
               /\ Called(CHUNK_SLEEP)
               /\ UNCHANGED <<latest, pc, new, max_block, decoded, partial>>
       ELSE /\ Return(kind, events, FALSE)
            /\ DropLocals
            /\ UNCHANGED <<sinceCall, lastGap>>
    /\ UNCHANGED <<src, chainVars, diskVars, runs, params, full_mode,
                   cursor_block, start_block, out, wi, preCursor, preData,
                   written, cursorWrites, result, failedAt,
                   mergeVars, sideVars, latestCalls, lookups>>

PeginLatest == src = "powpeg" /\ ResolveLatest("pegin_latest", "pegin_chunk")
PeginChunk == src = "powpeg" /\ FetchChunk("pegin_chunk", "pegin_btc")
PegoutLatest == src = "powpeg" /\ ResolveLatest("pegout_latest", "pegout_chunk")
PegoutChunk ==
    src = "powpeg"
    /\ FetchChunk("pegout_chunk", "release_request_received")

\* ---------------------------------------------------------------------------
\* fetch_flyover.py: fetch_all_logs and the classification loop of main
\* ---------------------------------------------------------------------------
\* a filter that keeps every item
FilteredKeepAll(items, min_block) == items

\* filtered = [i for i in items if i.get("block_number", 0) >= min_block]
Filtered(items, min_block) == SelectSeq(items, LAMBDA i : i.blk >= min_block)

\* a loop that goes on whenever the page carries a token
NextPageWantedTokenOnly(items, next_page, min_block) == next_page # NoToken

\* neither of the two breaks of the loop is taken
NextPageWanted(items, next_page, min_block) ==
    /\ ~(Len(Filtered(items, min_block)) < Len(items))
    /\ ~(next_page = NoToken \/ items = <<>>)

\* one pass of `while True` on the page (items, next_page) the API answered
TakePage(items, next_page) ==
    /\ events' = events \o Filtered(items, start_block)
    /\ IF NextPageWanted(items, next_page, start_block)
       THEN /\ pc' = pc
            /\ params' = next_page
            /\ Called(RATE_LIMIT_DELAY(src))
       ELSE /\ pc' = "classify"
            /\ params' = NoToken
            /\ Called(0)

FetchPage ==
    /\ src = "flyover"
    /\ pc = "fetch_page"
    /\ \/ \* requests.get or raise_for_status raised
          /\ Abort("fetch_page")
          /\ UNCHANGED <<events, params, sinceCall, lastGap>>
       \/ /\ TakePage(PageItems(chain, params), PageNext(chain, params))
          /\ UNCHANGED <<result, failedAt>>
    /\ UNCHANGED <<src, chainVars, diskVars, runs, start, latest, attempt,
                   mainVars, histVars, mergeVars, sideVars, queried,
                   latestCalls, lookups>>

\* for log in all_logs: look the signature up, track max_block, parse, route
Classify ==
    /\ src = "flyover"
    /\ pc = "classify"
    /\ LET known == SelectSeq(events, LAMBDA l : l.kind \in EVENTS)
           saved == SelectSeq(known, LAMBDA l : CatOf(l.kind) # "")
       IN /\ max_block' = MaxBlock(start_block, ParseAll(known))
          /\ new' = [c \in AllCats |->
                       ParseAll(SelectSeq(saved, LAMBDA l : CatOf(l.kind) = c))]
          /\ decoded' = {saved[i].blk : i \in 1..Len(saved)}
    /\ events' = <<>>
    /\ pc' = "timestamps"
    /\ UNCHANGED <<src, chainVars, diskVars, runs, start, latest, attempt,
                   params, full_mode, cursor_block, start_block, out, wi,
                   preCursor, preData, partial, written, cursorWrites, result,
                   failedAt, mergeVars, sideVars, obsVars>>

\* ---------------------------------------------------------------------------
\* Timestamp enrichment (a concrete timestamp is represented by the block
\* number it belongs to, an absent or empty one by 0)
\* ---------------------------------------------------------------------------
\* powpeg: rec["block_timestamp"] = fetch_tx_timestamp(rec["tx_hash"]), which
\* is "" when the lookup fails; ok = positions whose lookup succeeds
StampEachUntilFailure(s, ok) ==
    [i \in 1..Len(s) |->
        [s[i] EXCEPT !.block_timestamp =
            IF \A j \in 1..i : j \in ok THEN s[i].block_number ELSE 0]]

StampEach(s, ok) ==
    [i \in 1..Len(s) |->
        [s[i] EXCEPT !.block_timestamp =
            IF i \in ok THEN s[i].block_number ELSE 0]]

\* flyover: enrich_with_timestamps over the dict fetch_block_timestamps built;
\* okBlocks = blocks whose lookup succeeds
StampBlocks(s, okBlocks) ==
    [i \in 1..Len(s) |->
        IF s[i].block_number \in okBlocks
        THEN [s[i] EXCEPT !.block_timestamp = s[i].block_number]
        ELSE s[i]]

\* powpeg: one lookup per record of new_pegins + new_pegouts, each followed
\* by time.sleep(RATE_LIMIT_DELAY) whether it was answered or not; the first
\* answered lookup comes after the sleeps of the unanswered ones before it
LookupsEach(okIn, okOut) ==
    LET n == Len(new["pegins"]) + Len(new["pegouts"])
        ok == okIn \cup {Len(new["pegins"]) + i : i \in okOut}
        first == CHOOSE i \in ok : \A j \in ok : i <= j
    IN IF ok = {}
       THEN /\ sinceCall' = Slept(n * RATE_LIMIT_DELAY(src))
            /\ lastGap' = lastGap
       ELSE /\ lastGap' = IF sinceCall = -1 THEN RATE_LIMIT_DELAY(src)
                          ELSE Slept((first - 1) * RATE_LIMIT_DELAY(src))
            /\ sinceCall' = RATE_LIMIT_DELAY(src)

\* flyover: one lookup per unique block, time.sleep(RATE_LIMIT_DELAY) after an
\* answered lookup only
LookupsBlocks(okBlocks) ==
    IF okBlocks = {}
    THEN UNCHANGED <<sinceCall, lastGap>>
    ELSE Called(RATE_LIMIT_DELAY(src))

\* powpeg: the lookups of the loop over new_pegins + new_pegouts, one
\* fetch_tx_timestamp(rec["tx_hash"]) per record
TxLookups(s, ok) ==
    [i \in 1..Len(s) |->
        [tx |-> s[i].tx_hash, blk |-> s[i].block_number, ok |-> i \in ok]]

\* flyover: the lookups of fetch_block_timestamps, one per block of
\* sorted(set(block_numbers))
BlockLookups(blocks, okBlocks) ==
    LET sorted(i) == CHOOSE b \in blocks :
                         Cardinality({c \in blocks : c < b}) = i - 1
    IN [i \in 1..Cardinality(blocks) |->
           [tx |-> 0, blk |-> sorted(i), ok |-> sorted(i) \in okBlocks]]

Timestamps ==
    /\ pc = "timestamps"
    /\ IF src = "powpeg"
       THEN \E okIn \in SUBSET (1..Len(new["pegins"])) :
            \E okOut \in SUBSET (1..Len(new["pegouts"])) :
                /\ new' = [new EXCEPT !["pegins"] = StampEach(@, okIn),
                                      !["pegouts"] = StampEach(@, okOut)]
                /\ LookupsEach(okIn, okOut)
                /\ lookups' =
                       TxLookups(new["pegins"] \o new["pegouts"],
                                 okIn \cup {Len(new["pegins"]) + i :
                                               i \in okOut})
       ELSE \E okBlocks \in SUBSET decoded :
                /\ new' = [c \in AllCats |-> StampBlocks(new[c], okBlocks)]
                /\ LookupsBlocks(okBlocks)
                /\ lookups' = BlockLookups(decoded, okBlocks)
    /\ pc' = "merge"
    /\ UNCHANGED <<src, chainVars, diskVars, runs, fetchVars, full_mode,
                   cursor_block, start_block, max_block, out, wi, histVars,
                   result, failedAt, mergeVars, sideVars, queried, latestCalls>>

\* ---------------------------------------------------------------------------
\* Merge with the persisted datasets, write the files, write the cursor
\* ---------------------------------------------------------------------------
\* a missing or unreadable file loads as the empty list
load_existing_json(c) == data[c]

\* a run that never reads the persisted dataset
MergedNewOnly(c) == new[c]

\* "Merge with existing data (incremental) or use new data only (full)"
Merged(c) ==
    IF cursor_block # 0 /\ ~full_mode
    THEN merge_events(load_existing_json(c), new[c])
    ELSE new[c]

Merge ==
    /\ pc = "merge"
    /\ out' = [c \in AllCats |->
                 IF c \notin Cats(src) THEN <<>>
                 ELSE IF src = "powpeg" THEN SortByBlock(Merged(c))
                 ELSE Merged(c)]
    /\ wi' = 1
    /\ pc' = "save"
    /\ UNCHANGED <<src, chainVars, diskVars, runs, fetchVars, full_mode,
                   cursor_block, start_block, new, max_block, histVars, result,
                   failedAt, mergeVars, sideVars, obsVars>>

\* the cursor saved before the dataset files
SaveOrderCursorFirst(s) ==
    IF s = "powpeg"
    THEN <<"cursor", "pegins", "pegouts">>
    ELSE <<"cursor", "pegins", "pegouts", "penalties", "refunds", "lp_info">>

\* the files main writes, in the order it writes them
SaveOrder(s) ==
    IF s = "powpeg"
    THEN <<"pegins", "pegouts", "cursor">>
    ELSE <<"pegins", "pegouts", "penalties", "refunds", "cursor", "lp_info">>

\* after a completed write: the next file, or the end of main
Advance ==
    IF wi = Len(SaveOrder(src))
    THEN pc' = "idle" /\ result' = "ok" /\ wi' = wi /\ failedAt' = failedAt
    ELSE pc' = pc /\ result' = result /\ wi' = wi + 1 /\ failedAt' = failedAt

\* with open(path, "w") as f: json.dump(...).  A failing open leaves the file
\* as it was; a failing dump leaves a truncated file, which loads as []
WriteDataset ==
    /\ pc = "save"
    /\ SaveOrder(src)[wi] \in AllCats
    /\ LET c == SaveOrder(src)[wi] IN
        \/ /\ data' = [data EXCEPT ![c] = out[c]]
           /\ written' = written \cup {c}
           /\ Advance
        \/ /\ data' = data
           /\ Abort("write")
           /\ UNCHANGED <<wi, written>>
        \/ /\ data' = [data EXCEPT ![c] = <<>>]
           /\ Abort("write")
           /\ UNCHANGED <<wi, written>>
    /\ UNCHANGED <<src, chainVars, cursor, runs, fetchVars, full_mode,
                   cursor_block, start_block, new, max_block, out, preCursor,
                   preData, decoded, partial, cursorWrites,
                   mergeVars, sideVars, obsVars>>

\* save_cursor(max_block); a truncated cursor file loads as None
save_cursor ==
    /\ pc = "save"
    /\ SaveOrder(src)[wi] = "cursor"
    /\ \/ /\ cursor' = max_block
          /\ cursorWrites' = cursorWrites + 1
          /\ Advance
       \/ /\ cursor' \in {cursor, 0}
          /\ cursorWrites' = cursorWrites + 1
          /\ Abort("cursor")
          /\ UNCHANGED wi
    /\ UNCHANGED <<src, chainVars, data, runs, fetchVars, full_mode,
                   cursor_block, start_block, new, max_block, out, preCursor,
                   preData, decoded, partial, written, mergeVars, sideVars,
                   obsVars>>

\* fetch_lp_liquidity() (which catches its own errors) and the write of
\* flyover_lp_info.json, whose content is not modelled
SaveLpInfo ==
    /\ pc = "save"
    /\ SaveOrder(src)[wi] = "lp_info"
    /\ \/ Advance
       \/ Abort("lp_info") /\ UNCHANGED wi
    /\ UNCHANGED <<src, chainVars, diskVars, runs, fetchVars, full_mode,
                   cursor_block, start_block, new, max_block, out, histVars,
                   mergeVars, sideVars, obsVars>>

\* ---------------------------------------------------------------------------
\* The merge engine on its own: merge(D, B), then merge(merge(D, B), B)
\* ---------------------------------------------------------------------------
pipelineVars ==
    <<src, chainVars, diskVars, pc, runs, fetchVars, mainVars, histVars,
      result, failedAt, obsVars>>

MergeOnce ==
    /\ mStage = "in"
    /\ merger' = [merger EXCEPT !.mOut = merge_events(mD, mB),
                                !.mStage = "once"]
    /\ UNCHANGED <<pipelineVars, sideVars>>

MergeTwice ==
    /\ mStage = "once"
    /\ merger' = [merger EXCEPT !.mOut2 = merge_events(mOut, mB),
                                !.mStage = "twice"]
    /\ UNCHANGED <<pipelineVars, sideVars>>

\* ---------------------------------------------------------------------------
\* Specification
\* ---------------------------------------------------------------------------
Next ==
    \/ Mine
    \/ Reorg
    \/ Start
    \/ PeginLatest
    \/ PeginChunk
    \/ PegoutLatest
    \/ PegoutChunk
    \/ FetchPage
    \/ Classify
    \/ Timestamps
    \/ Merge
    \/ WriteDataset
    \/ save_cursor
    \/ SaveLpInfo
    \/ MergeOnce
    \/ MergeTwice

Spec == Init /\ [][Next]_vars

\* the merge engine alone
NextMerge ==
    \/ MergeOnce
    \/ MergeTwice

SpecMerge == InitMergeEngine /\ [][NextMerge]_vars

\* ---------------------------------------------------------------------------
\* check_alerts.py on its own: one rule, evaluated by run after run
\* ---------------------------------------------------------------------------
\* time.time() of the first run
StartClock == 1700000000

\* seconds between two runs: ten minutes, the two cooldowns' hour and half of
\* four hours, and a day
CheckGaps == {600, 3600, 7200, 86400}

\* what evaluate_rules gives for the rule: a severity, or no alert for the
\* rule at all
Evaluations == Severities \cup {"absent"}

alertClock == monitor.clock
alertState == monitor.state
dailySummary == monitor.daily
checks == monitor.checks

\* the first run is about to start: no state file
InitAlerts ==
    /\ src = "flyover"
    /\ InitDeployment
    /\ InitMergeOff
    /\ pages = <<>>
    /\ InitProcs("off")
    /\ InitDecodeOff
    /\ monitor = [mode |-> "alerts", clock |-> StartClock, state |-> NoEntry,
                  daily |-> 0, checks |-> <<>>]

\* main of check_alerts.py, from load_alert_state to save_alert_state, gap
\* seconds after the run before it (the whole run reads one clock value)
CheckAlerts ==
    /\ monitor.mode = "alerts"
    /\ Len(checks) < MaxChecks
    /\ \E gap \in CheckGaps : \E severity \in Evaluations :
        LET now_ts == IF checks = <<>> THEN alertClock ELSE alertClock + gap
            decision == IF severity = "absent" THEN DontSend
                        ELSE should_send(severity, alertState, now_ts)
            state == IF severity = "absent" THEN alertState
                     ELSE [known |-> TRUE,
                           severity |-> severity,
                           timestamp |-> StoredTimestamp(decision.send,
                                                         alertState, now_ts)]
            summary == DailySummaryDue(now_ts, dailySummary)
        IN monitor' =
             [monitor EXCEPT
                 !.clock = now_ts,
                 !.state = state,
                 !.daily = IF summary THEN now_ts ELSE dailySummary,
                 !.checks = Append(checks,
                                   [now_ts |-> now_ts,
                                    severity |-> severity,
                                    send |-> decision.send,
                                    is_recovery |-> decision.is_recovery,
                                    summary |-> summary,
                                    prev |-> alertState])]
    /\ UNCHANGED <<pipelineVars, mergeVars, pages, procVars, decoder>>

SpecAlerts == InitAlerts /\ [][CheckAlerts]_vars

\* ---------------------------------------------------------------------------
\* fetch_route_health.py on its own, run after run
\* ---------------------------------------------------------------------------
ProviderIds == {"CHANGELLY", "SYMBIOSIS"}

\* the providers the Swap API has enabled at the time of a run
ProviderSets == {{}, {"CHANGELLY"}, ProviderIds}

\* the clock at a run, relative to the run before: later in the same second,
\* two hours later on a whole second, seven days later
ClockSteps ==
    {[ds |-> 0, micro |-> 300000],
     [ds |-> 7200, micro |-> 0],
     [ds |-> 7 * 86400, micro |-> 500000]}

routeClock == monitor.clock
existing == monitor.existing
fetches == monitor.fetches

\* load_existing when there is no route_health.json: every .get gives []
NoRouteFile ==
    [history |-> <<>>, swap_provider_ids |-> {}, provider_changes |-> <<>>,
     new_provider_changes |-> <<>>]

\* route_health.json after MAX_HISTORY runs two hours apart, the last at
\* instant now, that all found the same provider
FullRouteFile(now) ==
    [history |->
        [k \in 1..MAX_HISTORY |->
            HistoryEntry({"CHANGELLY"},
                         [sec |-> now.sec - (MAX_HISTORY - k) * 7200,
                          micro |-> now.micro])],
     swap_provider_ids |-> {"CHANGELLY"},
     provider_changes |-> <<>>,
     new_provider_changes |-> <<>>]

InitRoutes ==
    /\ src = "flyover"
    /\ InitDeployment
    /\ InitMergeOff
    /\ pages = <<>>
    /\ InitProcs("off")
    /\ InitDecodeOff
    /\ \E file \in {NoRouteFile,
                     FullRouteFile([sec |-> StartClock, micro |-> 500000])} :
        monitor = [mode |-> "routes",
                   clock |-> [sec |-> StartClock, micro |-> 500000],
                   existing |-> file,
                   fetches |-> <<>>]

\* main of fetch_route_health.py, from load_existing to json.dump (the whole
\* run reads one clock value).  A failed /providers request leaves
\* providers_raw = [].
FetchRouteHealth ==
    /\ monitor.mode = "routes"
    /\ Len(fetches) < MaxFetches
    /\ \E step \in ClockSteps : \E enabled \in ProviderSets :
       \E ok \in BOOLEAN :
        LET now == [sec |-> routeClock.sec + step.ds, micro |-> step.micro]
            swap_provider_ids == IF ok THEN enabled ELSE {}
        IN /\ step.ds > 0 \/ step.micro > routeClock.micro
           /\ \E new_changes \in
                  detect_provider_changes(existing.swap_provider_ids,
                                          swap_provider_ids, now) :
               monitor' =
                 [monitor EXCEPT
                     !.clock = now,
                     !.existing =
                         [history |->
                              append_history(existing.history,
                                             swap_provider_ids, now),
                          swap_provider_ids |-> swap_provider_ids,
                          provider_changes |->
                              Since(existing.provider_changes \o new_changes,
                                    DaysBefore(now, 30)),
                          new_provider_changes |-> new_changes],
                     !.fetches =
                         Append(fetches,
                                [now |-> now, enabled |-> enabled, ok |-> ok,
                                 before |-> existing,
                                 new_changes |-> new_changes])]
    /\ UNCHANGED <<pipelineVars, mergeVars, pages, procVars, decoder>>

SpecRoutes == InitRoutes /\ [][FetchRouteHealth]_vars

\* ---------------------------------------------------------------------------
\* dedup_by_tx_hash on its own: dedup(L), then dedup(dedup(L))
\* ---------------------------------------------------------------------------
\* records dedup is exercised on; tx_hash 0 is an empty or missing tx_hash
DedupRecords ==
    [tx_hash : 0..2, block_number : {MIN_BLOCK}, value : 1..2,
     block_timestamp : {0}]

InitDedup ==
    /\ src = "powpeg"
    /\ InitDeployment
    /\ \E d \in SeqUpTo(DedupRecords, MaxLen) :
           merger = Merger(d, <<>>, "dedup_in")
    /\ InitSideOff

DedupOnce ==
    /\ mStage = "dedup_in"
    /\ merger' = [merger EXCEPT !.mOut = dedup_by_tx_hash(mD),
                                !.mStage = "dedup_once"]
    /\ UNCHANGED <<pipelineVars, sideVars>>

DedupTwice ==
    /\ mStage = "dedup_once"
    /\ merger' = [merger EXCEPT !.mOut2 = dedup_by_tx_hash(mOut),
                                !.mStage = "dedup_twice"]
    /\ UNCHANGED <<pipelineVars, sideVars>>

NextDedup ==
    \/ DedupOnce
    \/ DedupTwice

SpecDedup == InitDedup /\ [][NextDedup]_vars

\* ---------------------------------------------------------------------------
\* Two invocations of fetch_powpeg.py on the same data directory (no --full,
\* no failing request), each taking the steps of main one at a time
\* ---------------------------------------------------------------------------
procRest == <<src, pc, runs, fetchVars, mainVars, histVars, result, failedAt,
              obsVars, mergeVars, pages, reorgs, decoder, monitor>>

\* a fresh deployment, or the state an earlier run over a window without
\* events left: empty dataset files and the cursor at MIN_BLOCK
InitConcurrent ==
    /\ src = "powpeg"
    /\ chain = {}
    /\ tip = InitTip
    /\ nextTx = 1
    /\ mined = 0
    /\ reorgs = 0
    /\ cursor \in {0, MIN_BLOCK}
    /\ data = EmptyData
    /\ InitRun
    /\ InitMergeOff
    /\ pages = <<>>
    /\ InitProcs("idle")
    /\ InitDecodeOff
    /\ InitMonitorOff

\* a block with one peg-in or one peg-out, or with no event of the bridge
ProcMine ==
    /\ mined < MaxMine
    /\ \E content \in BlockOptions(src, nextTx, tip + BlockGap) :
        /\ \A l \in content : l.idx = 0
        /\ tip' = tip + BlockGap
        /\ chain' = chain \cup content
        /\ nextTx' = IF content = {} THEN nextTx ELSE nextTx + 1
    /\ mined' = mined + 1
    /\ UNCHANGED <<diskVars, procVars, procRest>>

\* cursor_block = load_cursor()
ProcStart(p) ==
    /\ procPc[p] = "idle"
    /\ procCursorBlock' = [procCursorBlock EXCEPT ![p] = cursor]
    /\ overlap' = (overlap \/ \E q \in Procs \ {p} : procPc[q] \notin {"idle", "done"})
    /\ procPc' = [procPc EXCEPT ![p] = "fetch"]
    /\ UNCHANGED <<chainVars, diskVars, procNew, procOut, procWrote, procRest>>

\* fetch_pegin_logs, fetch_pegout_logs, parse, dedup
ProcFetch(p) ==
    /\ procPc[p] = "fetch"
    /\ procNew' = [procNew EXCEPT ![p] =
          [c \in AllCats |->
             IF c = "pegins"
             THEN dedup_by_tx_hash(ParseAll(EthGetLogs(chain, "pegin_btc",
                      StartBlock(procCursorBlock[p]), tip)))
             ELSE IF c = "pegouts"
             THEN dedup_by_tx_hash(ParseAll(EthGetLogs(chain,
                      "release_request_received",
                      StartBlock(procCursorBlock[p]), tip)))
             ELSE <<>>]]
    /\ procPc' = [procPc EXCEPT ![p] = "merge"]
    /\ UNCHANGED <<chainVars, diskVars, procCursorBlock, procOut, procWrote,
                   overlap, procRest>>

\* an invocation that never reads the persisted dataset
ProcMergedNewOnly(p, c) == procNew[p][c]

\* if cursor_block: merge_events(load_existing_json(...), new) else new
ProcMerged(p, c) ==
    IF procCursorBlock[p] # 0
    THEN merge_events(load_existing_json(c), procNew[p][c])
    ELSE procNew[p][c]

\* the two merges and the two sorts
ProcMerge(p) ==
    /\ procPc[p] = "merge"
    /\ procOut' = [procOut EXCEPT ![p] =
          [c \in AllCats |->
             IF c \in Cats(src) THEN SortByBlock(ProcMerged(p, c)) ELSE <<>>]]
    /\ procPc' = [procPc EXCEPT ![p] = "pegins"]
    /\ UNCHANGED <<chainVars, diskVars, procCursorBlock, procNew, procWrote,
                   overlap, procRest>>

\* with open(path, "w") as f: json.dump(...)
ProcWrite(p) ==
    /\ procPc[p] \in Cats(src)
    /\ data' = [data EXCEPT ![procPc[p]] = procOut[p][procPc[p]]]
    /\ procWrote' = [procWrote EXCEPT ![p][procPc[p]] = Keys(procOut[p][procPc[p]])]
    /\ procPc' = [procPc EXCEPT ![p] =
                     IF procPc[p] = "pegins" THEN "pegouts" ELSE "cursor"]
    /\ UNCHANGED <<chainVars, cursor, procCursorBlock, procNew, procOut,
                   overlap, procRest>>

\* save_cursor(max_block)
ProcSaveCursor(p) ==
    /\ procPc[p] = "cursor"
    /\ cursor' = MaxBlock(StartBlock(procCursorBlock[p]),
                          procNew[p]["pegins"] \o procNew[p]["pegouts"])
    /\ procPc' = [procPc EXCEPT ![p] = "done"]
    /\ UNCHANGED <<chainVars, data, procCursorBlock, procNew, procOut,
                   procWrote, overlap, procRest>>

ProcStep ==
    \E p \in Procs :
        \/ ProcStart(p)
        \/ ProcFetch(p)
        \/ ProcMerge(p)
        \/ ProcWrite(p)
        \/ ProcSaveCursor(p)

NextConcurrent ==
    \/ ProcMine
    \/ ProcStep

SpecConcurrent == InitConcurrent /\ [][NextConcurrent]_vars

\* ---------------------------------------------------------------------------
\* fetch_all_logs against any page source
\* ---------------------------------------------------------------------------
\* items a page may hold: below, at and above the first run's min_block
PageLogs ==
    {[tx |-> b - MIN_BLOCK + 2, idx |-> 0, blk |-> b, kind |-> "CallForUser",
      val |-> 1] : b \in {MIN_BLOCK - 1, MIN_BLOCK, MIN_BLOCK + 1}}

\* the token a page source keeps returning
RepeatToken == [blk |-> 1, idx |-> 1]

\* one pass of the loop on a page of any content, with or without a token and
\* whatever params asked for; the source serves an empty page at the latest as
\* its MaxPages-th page
FetchPageAny ==
    /\ src = "flyover"
    /\ pc = "fetch_page"
    /\ Len(pages) < MaxPages
    /\ \E items \in (IF Len(pages) < MaxPages - 1
                      THEN SeqUpTo(PageLogs, PageSize) ELSE {<<>>}) :
       \E next_page \in {NoToken, RepeatToken} :
           /\ TakePage(items, next_page)
           /\ pages' = Append(pages, [items |-> items, next |-> next_page])
    /\ UNCHANGED <<src, chainVars, diskVars, runs, start, latest, attempt,
                   mainVars, histVars, result, failedAt, mergeVars, procVars,
                   decoder, monitor, queried, latestCalls, lookups>>

InitPages ==
    /\ src = "flyover"
    /\ InitDeployment
    /\ InitMergeOff
    /\ InitSideOff

NextPages ==
    \/ Start
    \/ FetchPageAny

\* a started process keeps running
SpecPages == InitPages /\ [][NextPages]_vars /\ WF_vars(NextPages)

\* ---------------------------------------------------------------------------
\* The two collectors of fetch_powpeg.py over windows of any length
\* ---------------------------------------------------------------------------
\* chain heights: the first block of the window, and one block below, at and
\* above a whole number of chunks
ChunkTips ==
    {MIN_BLOCK + d : d \in {0, 1, CHUNK_SIZE - 1, CHUNK_SIZE, CHUNK_SIZE + 1,
                             2 * CHUNK_SIZE - 1, 2 * CHUNK_SIZE}}

\* persisted cursors: none, one that puts the window start just above
\* MIN_BLOCK, and one that puts it a chunk above (beyond the lower heights)
ChunkCursors == {0, MIN_BLOCK + REORG_BUFFER + 1,
                 MIN_BLOCK + REORG_BUFFER + CHUNK_SIZE}

\* one event of each kind in the first block of each of the first two chunks
ChunkChain(height) ==
    {[tx |-> 1 + (b - MIN_BLOCK) \div CHUNK_SIZE, idx |-> 0, blk |-> b,
      kind |-> k, val |-> 1] :
        b \in {x \in {MIN_BLOCK, MIN_BLOCK + CHUNK_SIZE} : x <= height},
        k \in ChainKinds("powpeg")}

InitChunks ==
    /\ src = "powpeg"
    /\ tip \in ChunkTips
    /\ chain = ChunkChain(tip)
    /\ nextTx = 3
    /\ mined = 0
    /\ reorgs = 0
    /\ cursor \in ChunkCursors
    /\ data = EmptyData
    /\ InitRun
    /\ InitMergeOff
    /\ InitSideOff

NextChunks ==
    \/ Start
    \/ PeginLatest
    \/ PeginChunk
    \/ PegoutLatest
    \/ PegoutChunk

\* a started process keeps running
SpecChunks == InitChunks /\ [][NextChunks]_vars /\ WF_vars(NextChunks)

\* ---------------------------------------------------------------------------
\* Timestamp enrichment of the records of a first run over a chain whose
\* lowest block holds two transactions
\* ---------------------------------------------------------------------------
\* two transactions with one event each in block MIN_BLOCK and none or one
\* in the block above it
EnrichChains(s) ==
    {{[tx |-> 1, idx |-> 0, blk |-> MIN_BLOCK, kind |-> k1, val |-> 1],
      [tx |-> 2, idx |-> 1, blk |-> MIN_BLOCK, kind |-> k2, val |-> 1]}
        \cup above :
            k1 \in ChainKinds(s), k2 \in ChainKinds(s),
            above \in {{}} \cup
                {{[tx |-> 3, idx |-> 0, blk |-> MIN_BLOCK + 1, kind |-> k3,
                   val |-> 1]} : k3 \in ChainKinds(s)}}

InitEnrich ==
    /\ src \in Sources
    /\ tip = MIN_BLOCK + 1
    /\ chain \in EnrichChains(src)
    /\ nextTx = 4
    /\ mined = 0
    /\ reorgs = 0
    /\ cursor = 0
    /\ data = EmptyData
    /\ InitRun
    /\ InitMergeOff
    /\ InitSideOff

NextEnrich ==
    \/ Start
    \/ PeginLatest
    \/ PeginChunk
    \/ PegoutLatest
    \/ PegoutChunk
    \/ FetchPage
    \/ Classify
    \/ Timestamps

SpecEnrich == InitEnrich /\ [][NextEnrich]_vars

\* ---------------------------------------------------------------------------
\* The decoders on their own: a raw log, then the complete log it was cut
\* from, each handed to the parser of its event
\* ---------------------------------------------------------------------------
InitParse ==
    /\ src \in Sources
    /\ InitDeployment
    /\ InitMergeOff
    /\ pages = <<>>
    /\ InitProcs("off")
    /\ InitMonitorOff
    /\ \E name \in (IF src = "powpeg"
                    THEN {"pegin_btc", "release_request_received"}
                    ELSE EVENTS) :
       \E t1 \in TopicWords : \E t2 \in TopicWords :
       \E w1 \in DataWords : \E w2 \in DataWords :
          LET full == FullLog(name, t1, t2, w1, w2) IN
          \/ \E n \in 0..IndexedCount(name) : \E blank \in SUBSET (1..n) :
             \E len \in 0..Len(full.data) :
                 decoder = Decoder(<<Truncated(full, n, blank, len), full>>,
                                   0, "parse")
          \/ /\ src = "flyover"
             /\ decoder =
                  Decoder(<<[full EXCEPT !.decoded.parameters =
                                            ApiDecoded(name, t1, t2, w1, w2)],
                            full>>, 0, "parse")

\* parse_*(log) on the next raw log
ParseNext ==
    /\ decodeState = "parse"
    /\ decoder' =
         [decoder EXCEPT
             !.parsed = Append(parsed,
                               Parse(topic_to_name(rawLogs[li].topics[1]),
                                     rawLogs[li])),
             !.li = li + 1,
             !.decodeState = IF li = Len(rawLogs) THEN "done" ELSE "parse"]
    /\ UNCHANGED <<pipelineVars, mergeVars, pages, procVars, monitor>>

SpecParse == InitParse /\ [][ParseNext]_vars

\* ---------------------------------------------------------------------------
\* The classification loop of fetch_flyover.py on its own, on a batch of two
\* logs of which one is a well-formed CallForUser log
\* ---------------------------------------------------------------------------
GoodLog ==
    [FullLog("CallForUser", [i \in 1..WordLen |-> 10],
             [i \in 1..WordLen |-> 11], [i \in 1..WordLen |-> 1],
             [i \in 1..WordLen |-> 1])
        EXCEPT !.transaction_hash = 2, !.block_number = MIN_BLOCK + 2]

\* first topics of the other log: any known signature, a signature that is
\* not in the table, or null
OddTopic0 == {Topic0(name) : name \in EVENTS \cup {"Unknown"}} \cup {<<>>}

InitClassify ==
    /\ src = "flyover"
    /\ InitDeployment
    /\ InitMergeOff
    /\ pages = <<>>
    /\ InitProcs("off")
    /\ InitMonitorOff
    /\ \E topics \in {<<>>} \cup
                    {<<t0>> \o rest :
                        t0 \in OddTopic0,
                        rest \in {<<>>, <<<<>>>>,
                                  <<[i \in 1..WordLen |-> 10]>>,
                                  <<[i \in 1..WordLen |-> 10],
                                    [i \in 1..WordLen |-> 11]>>}} :
       \E blob \in {<<>>, [i \in 1..(2 * WordLen) |-> 1]} :
       \E blk \in {MIN_BLOCK + 1, MIN_BLOCK + 3} :
       \E first \in BOOLEAN :
          LET odd == [transaction_hash |-> 1, block_number |-> blk,
                      topics |-> topics, data |-> blob,
                      decoded |-> [parameters |-> NoParameters]]
          IN decoder = Decoder(IF first THEN <<odd, GoodLog>>
                                        ELSE <<GoodLog, odd>>,
                               MIN_BLOCK, "classify")

\* one pass of `for log in all_logs`; [][0] raises IndexError
ClassifyLog ==
    /\ decodeState = "classify"
    /\ LET log == rawLogs[li]
           last == li = Len(rawLogs)
       IN IF log.topics = <<>>
          THEN decoder' = [decoder EXCEPT !.decodeState = "raised"]
          ELSE LET event_name == topic_to_event(log.topics[1]) IN
               decoder' =
                 [decoder EXCEPT
                     !.li = li + 1,
                     !.decodeState = IF last THEN "done" ELSE "classify",
                     !.parsedMax = IF event_name = "" THEN parsedMax
                                   ELSE Max2(parsedMax, log.block_number),
                     !.parsed = IF event_name \in {"", "PegInRegistered",
                                                   "PegOutRefunded"}
                                THEN parsed
                                ELSE Append(parsed, Parse(event_name, log))]
    /\ UNCHANGED <<pipelineVars, mergeVars, pages, procVars, monitor>>

SpecClassify == InitClassify /\ [][ClassifyLog]_vars

\* ---------------------------------------------------------------------------
\* Runs against a chain that is quiet once the first run has made a request
\* ---------------------------------------------------------------------------
\* blocks arrive before the first request of the first run only, so every
\* request of every run is answered from the same chain
QuietMine ==
    /\ runs = 1
    /\ sinceCall = -1
    /\ Mine

NextRerun ==
    \/ QuietMine
    \/ Start
    \/ PeginLatest
    \/ PeginChunk
    \/ PegoutLatest
    \/ PegoutChunk
    \/ FetchPage
    \/ Classify
    \/ Timestamps
    \/ Merge
    \/ WriteDataset
    \/ save_cursor
    \/ SaveLpInfo

SpecRerun == InitPipeline /\ [][NextRerun]_vars

\* ---------------------------------------------------------------------------
\* Properties
\* ---------------------------------------------------------------------------
\* the run that last ended was a successful incremental run
IncrementalOk == result = "ok" /\ cursor_block # 0 /\ ~full_mode

\* records of a list filed under key k
Under(s, k) == {s[i] : i \in {j \in 1..Len(s) : s[j].tx_hash = k}}

\* C1: the cursor a successful run saves is never below the cursor that was
\* persisted before the run (stated for runs whose fetches all completed)
CursorNeverDecreases ==
    (result = "ok" /\ ~partial) => cursor >= preCursor

\* C2: after a successful run every tracked event that is on chain at a block
\* not above the cursor is in the dataset of its category (stated for runs
\* whose fetches all completed)
CursorFullyIngested ==
    (result = "ok" /\ ~partial) =>
        \A l \in chain :
            (CatOf(l.kind) # "" /\ l.blk <= cursor) =>
                l.tx \in Keys(data[CatOf(l.kind)])

\* C3: a run that raised while fetching, decoding, enriching or writing a
\* dataset file leaves the cursor and every dataset file as they were before it
AbortLeavesStateUntouched ==
    (result = "failed" /\ failedAt \notin {"cursor", "lp_info"}) =>
        (cursor = preCursor /\ data = preData)

\* C4: a run in which a fetch gave up (retries exhausted or RPC error) writes
\* no dataset file and does not write the cursor
FailedFetchAborts ==
    partial => (written = {} /\ cursorWrites = 0 /\ result # "ok")

\* C5: after a successful run the cursor is at least the run's start block and
\* at least the block number of every record the run decoded
CursorCoversRun ==
    result = "ok" =>
        (cursor >= start_block /\ \A b \in decoded : cursor >= b)

CursorCoversRunWitness ==
    /\ result = "ok"
    /\ decoded # {}
    /\ cursor > start_block
    /\ cursor \in decoded

\* C6: save_cursor is called at most once in a run and only after every dataset
\* file of the run has been written; a run that raised before that call has
\* not touched the cursor file
CursorWrittenLast ==
    /\ cursorWrites <= 1
    /\ cursorWrites = 1 => written = Cats(src)
    /\ (result = "failed" /\ failedAt \notin {"cursor", "lp_info"}) =>
           (cursorWrites = 0 /\ cursor = preCursor)

CursorWrittenLastWitness ==
    /\ result = "ok"
    /\ cursorWrites = 1
    /\ written = Cats(src)
    /\ cursor # preCursor
    /\ preCursor # 0

\* C7 as claimed, in its --full case: every key persisted before a successful
\* run is persisted after it, also when the run is a --full run (stated for
\* runs whose fetches all completed and that found a cursor, so that the
\* datasets before the run are those a completed run left)
DatasetsMergeOnly ==
    (result = "ok" /\ ~partial /\ preCursor # 0) =>
        \A c \in Cats(src) : Keys(preData[c]) \subseteq Keys(data[c])

\* C7: every key persisted before a successful incremental run (a persisted
\* cursor was found and --full was not given) is persisted after it
IncrementalMergeOnly ==
    IncrementalOk =>
        \A c \in Cats(src) : Keys(preData[c]) \subseteq Keys(data[c])

\* an incremental run that kept a record it did not fetch again
IncrementalMergeOnlyWitness ==
    /\ IncrementalOk
    /\ ~partial
    /\ \E c \in Cats(src) :
        /\ new[c] # <<>>
        /\ \E k \in Keys(preData[c]) : k \notin Keys(new[c]) /\ k \in Keys(data[c])

\* C8: after a successful run no dataset holds two records with one tx_hash
OneRecordPerKey ==
    result = "ok" => \A c \in Cats(src) : NoDupKeys(data[c])

\* C9: merging the same batch a second time changes nothing:
\* merge(merge(D, B), B) = merge(D, B), records and order
MergeIdempotent ==
    mStage = "twice" => mOut2 = mOut

MergeIdempotentWitness ==
    /\ mStage = "twice"
    /\ Keys(mD) \cap Keys(mB) # {}
    /\ ~NoDupKeys(mB)
    /\ Keys(mB) \ Keys(mD) # {}
    /\ mOut # mD

\* C10: incoming wins.  In merge(D, B) a key of B holds B's record (the last
\* one B has for it) and a key of D alone holds D's record, and no other key
\* occurs; the datasets written by a successful incremental run relate in this
\* way to the persisted datasets and the records the run fetched
IncomingWins ==
    /\ mStage \in {"once", "twice"} =>
        /\ Keys(mOut) = Keys(mD) \cup Keys(mB)
        /\ \A k \in Keys(mOut) :
            Under(mOut, k) = {IF k \in Keys(mB) THEN LastWithKey(mB, k)
                                                ELSE LastWithKey(mD, k)}
    /\ IncrementalOk =>
        \A c \in Cats(src) :
            /\ Keys(data[c]) = Keys(preData[c]) \cup Keys(new[c])
            /\ \A k \in Keys(data[c]) :
                Under(data[c], k) =
                    {IF k \in Keys(new[c]) THEN LastWithKey(new[c], k)
                                           ELSE LastWithKey(preData[c], k)}

\* an incremental run fetched again, with another decoded value, a transaction
\* that was already persisted
IncomingWinsWitness ==
    /\ IncrementalOk
    /\ \E c \in Cats(src) : \E k \in Keys(preData[c]) \cap Keys(new[c]) :
        /\ LastWithKey(preData[c], k).value # LastWithKey(new[c], k).value
        /\ LastWithKey(new[c], k) \in Range(data[c])

\* every tracked event of the chain has its transaction in the dataset d
Covers(d) ==
    \A l \in chain : CatOf(l.kind) # "" => l.tx \in Keys(d[CatOf(l.kind)])

\* the lookups of the run gave each transaction the timestamp it had on disk
SameTimestamps ==
    \A c \in Cats(src) : \A i \in 1..Len(new[c]) : \A j \in 1..Len(preData[c]) :
        new[c][i].tx_hash = preData[c][j].tx_hash =>
            new[c][i].block_timestamp = preData[c][j].block_timestamp

\* C11: a successful run on a chain that has not changed since an earlier run
\* ingested all of it and saved its cursor, and that is given the same
\* timestamps, leaves every dataset file as it was
RerunChangesNothing ==
    (result = "ok" /\ ~partial /\ preCursor # 0 /\ Covers(preData)
        /\ SameTimestamps) => data = preData

\* the steps of the chunk loops
ChunkPcs == {"pegin_chunk", "pegout_chunk"}

\* C12: a run that finds no cursor fetches from MIN_BLOCK; an incremental run
\* that finds cursor h fetches from h - 10, or from MIN_BLOCK when h - 10 is
\* below it; the start block is never below MIN_BLOCK, and the first query of
\* a collector and every log kept by fetch_all_logs respect it
FetchWindowStart ==
    result # "none" =>
        /\ start_block >= MIN_BLOCK
        /\ preCursor = 0 => start_block = MIN_BLOCK
        /\ (preCursor # 0 /\ ~full_mode) =>
               start_block = (IF preCursor - 10 >= MIN_BLOCK THEN preCursor - 10
                                                             ELSE MIN_BLOCK)
        /\ (pc \in ChunkPcs /\ queried # <<>>) => queried[1][1] = start_block
        /\ \A i \in 1..Len(events) : events[i].blk >= start_block

\* an incremental run queried from ten blocks below a cursor well above MIN_BLOCK
FetchWindowStartWitness ==
    /\ ~full_mode
    /\ preCursor > MIN_BLOCK + 10
    /\ pc \in ChunkPcs
    /\ queried # <<>>
    /\ queried[1][1] = preCursor - 10

\* C13: a --full run does not read the cursor: it fetches from MIN_BLOCK and
\* writes the fetched records only, as a run without a cursor file does, and
\* the cursor file stays as it was until save_cursor is called
FullIgnoresCursor ==
    (full_mode /\ result # "none") =>
        /\ cursor_block = 0
        /\ start_block = MIN_BLOCK
        /\ (pc \in ChunkPcs /\ queried # <<>>) => queried[1][1] = MIN_BLOCK
        /\ pc = "save" => \A c \in Cats(src) : Keys(out[c]) = Keys(new[c])
        /\ cursorWrites = 0 => cursor = preCursor

\* a --full run over an existing cursor has written dataset files and not yet
\* the cursor
FullIgnoresCursorWitness ==
    /\ full_mode
    /\ preCursor > MIN_BLOCK
    /\ pc = "save"
    /\ written # {}
    /\ cursorWrites = 0
    /\ cursor = preCursor
    /\ \E c \in Cats(src) : Keys(preData[c]) # Keys(out[c])

\* C14, serialized part: when one invocation ran to its end before the other
\* started, every key either of them wrote to a dataset is in that dataset at
\* the end
SerializedRunsKeepRecords ==
    ((\A p \in Procs : procPc[p] = "done") /\ ~overlap) =>
        \A p \in Procs : \A c \in Cats(src) : procWrote[p][c] \subseteq Keys(data[c])

\* C14, overlapping part: two overlapping invocations, both of which read the
\* dataset files and merged, have ended and a key one of them wrote to a
\* dataset is not in that dataset (lost update)
LostUpdateWitness ==
    /\ \A p \in Procs : procPc[p] = "done" /\ procCursorBlock[p] # 0
    /\ overlap
    /\ \E p \in Procs : \E c \in Cats(src) : ~(procWrote[p][c] \subseteq Keys(data[c]))

\* the page went on to another request: it was not the last one received, or
\* the loop is still running
WentOn(i) == i < Len(pages) \/ pc = "fetch_page"

\* the loop goes on only past pages that hold items and carry a token
StopsAtPageEnd ==
    \A i \in 1..Len(pages) :
        WentOn(i) => (pages[i].items # <<>> /\ pages[i].next # NoToken)

\* C15: fetch_all_logs requests no page after a page with an empty item list or
\* without a token, and against a source that serves an empty page sooner or
\* later it returns, also when every page carries the same token
FetchAllLogsTerminates ==
    []StopsAtPageEnd /\ <>(pc = "classify")

\* the loop stopped at an empty page of a source that repeated its token on
\* every page, the empty one included
FetchAllLogsTerminatesWitness ==
    /\ pc = "classify"
    /\ Len(pages) >= 2
    /\ \A i \in 1..Len(pages) : pages[i].next = RepeatToken
    /\ pages[Len(pages)].items = <<>>
    /\ events # <<>>

\* the items of the pages that are not below min_block, in page order
RECURSIVE KeptItems(_, _)
KeptItems(pgs, min_block) ==
    IF pgs = <<>> THEN <<>>
    ELSE SelectSeq(Head(pgs).items, LAMBDA l : ~(l.blk < min_block))
            \o KeptItems(Tail(pgs), min_block)

ChunksPartition ==
    pc \in ChunkPcs =>
        /\ \A i \in 1..Len(queried) :
              /\ queried[i][1] <= queried[i][2]
              /\ queried[i][2] - queried[i][1] + 1 <= 200000
              /\ queried[i][2] <= latest
              /\ queried[i][1] = (IF i = 1 THEN start_block
                                           ELSE queried[i - 1][2] + 1)
        /\ start = (IF queried = <<>> THEN start_block
                                      ELSE queried[Len(queried)][2] + 1)
        /\ (start > latest /\ start_block <= latest) =>
              (queried # <<>> /\ queried[Len(queried)][2] = latest)
        /\ start_block > latest => (queried = <<>> /\ events = <<>>)

\* C17: the eth_getLogs ranges of a collector call partition
\* [start_block, latest] into contiguous ranges of at most CHUNK_SIZE blocks,
\* no query is made when start_block > latest, and the loop ends
ChunksCoverWindow ==
    []ChunksPartition /\ ((pc \in ChunkPcs) ~> (pc \notin ChunkPcs))

\* a loop reached its exit after a full chunk and a shorter last chunk
ChunksCoverWindowWitness ==
    /\ pc \in ChunkPcs
    /\ start > latest
    /\ Len(queried) >= 2
    /\ queried[1][2] - queried[1][1] + 1 = CHUNK_SIZE
    /\ queried[Len(queried)][2] - queried[Len(queried)][1] + 1 < CHUNK_SIZE
    /\ queried[Len(queried)][2] = latest
    /\ Len(events) >= 2

\* C18: a run resolves the chain height once, so that every block-range
\* query of the run has the same upper bound (stated for runs whose fetches
\* all completed)
LatestResolvedOnce ==
    ~partial => latestCalls <= 1

\* C19: a request is tried at most three times, and a request error ends the
\* run only when the third attempt has failed
RetriesThenReraises ==
    /\ attempt <= MAX_ATTEMPTS - 1
    /\ (result = "failed" /\ failedAt \in FetchPcs) => attempt = MAX_ATTEMPTS - 1

\* C20: every answered call of a run comes at least the rate-limit delay after
\* the answered call before it (stated for runs whose fetches all completed)
RateLimitRespected ==
    ~partial => lastGap >= RATE_LIMIT_DELAY(src)

\* positions in lookups of the lookups that were answered
answered == {k \in 1..Len(lookups) : lookups[k].ok}

\* the newly decoded records of the run, as (dataset, position) pairs
NewRecords ==
    UNION {{<<c, i>> : i \in 1..Len(new[c])} : c \in Cats(src)}

\* the lookups that were issued for the record at position i of new[c]
LookupsFor(c, i) ==
    IF src = "powpeg"
    THEN {k \in 1..Len(lookups) :
            /\ k = (IF c = "pegouts" THEN Len(new["pegins"]) + i ELSE i)
            /\ lookups[k].tx = new[c][i].tx_hash}
    ELSE {k \in 1..Len(lookups) : lookups[k].blk = new[c][i].block_number}

\* the persisted copy of the record already carried a timestamp
Enriched(c, i) ==
    \E j \in 1..Len(preData[c]) :
        /\ preData[c][j].tx_hash = new[c][i].tx_hash
        /\ preData[c][j].block_timestamp # 0

\* C21: a persisted record whose timestamp is empty is looked up again by a
\* later run, however far below the cursor its block lies: after a successful
\* incremental run all of whose lookups were answered, no persisted record is
\* left without a timestamp
NullTimestampsRetried ==
    (IncrementalOk /\ ~partial /\ answered = 1..Len(lookups)) =>
        \A c \in Cats(src) : \A j \in 1..Len(data[c]) :
            data[c][j].block_timestamp # 0

\* C22: a timestamp once persisted is never lost: after a successful
\* incremental run, every key that was persisted with a timestamp before the
\* run is persisted with a timestamp
TimestampNeverLost ==
    (IncrementalOk /\ ~partial) =>
        \A c \in Cats(src) : \A i \in 1..Len(preData[c]) :
            preData[c][i].block_timestamp # 0 =>
                \A j \in 1..Len(data[c]) :
                    data[c][j].tx_hash = preData[c][i].tx_hash =>
                        data[c][j].block_timestamp # 0

\* C23: a run issues one timestamp lookup per distinct block number among its
\* newly decoded records, not one per record
OneLookupPerBlock ==
    (~partial /\ lookups # <<>>) =>
        Len(lookups) =
            Cardinality({new[r[1]][r[2]].block_number : r \in NewRecords})

\* C24: a failed timestamp lookup does not end the run: every record of the
\* run has its lookup issued, carries the block's timestamp exactly when that
\* lookup was answered and none otherwise, and a run that ends well after a
\* failed lookup has written every dataset with the records it decoded and
\* has set the cursor to max_block
LookupFailureTolerated ==
    /\ failedAt # "timestamps"
    /\ lookups # <<>> =>
          \A r \in NewRecords :
              /\ LookupsFor(r[1], r[2]) # {}
              /\ new[r[1]][r[2]].block_timestamp =
                     (IF LookupsFor(r[1], r[2]) \subseteq answered
                      THEN new[r[1]][r[2]].block_number ELSE 0)
    /\ (result = "ok" /\ answered # 1..Len(lookups)) =>
          /\ written = Cats(src)
          /\ cursorWrites = 1
          /\ cursor = max_block
          /\ \A r \in NewRecords :
                 (\A i \in (r[2] + 1)..Len(new[r[1]]) :
                      new[r[1]][i].tx_hash # new[r[1]][r[2]].tx_hash)
                     => new[r[1]][r[2]] \in Range(data[r[1]])

\* a run ended well although the first of its lookups failed and a later one
\* was answered: the record of the failed lookup is persisted without a
\* timestamp and the cursor moved
LookupFailureToleratedWitness ==
    /\ result = "ok"
    /\ Len(lookups) >= 2
    /\ 1 \notin answered
    /\ 2 \in answered
    /\ \E c \in Cats(src) : \E j \in 1..Len(data[c]) :
           /\ data[c][j].block_timestamp = 0
           /\ data[c][j].block_number = lookups[1].blk
    /\ cursor # preCursor

\* C25: enrichment touches newly observed records only: an incremental run
\* issues no lookup that serves only records whose persisted copies already
\* carry a timestamp
NoLookupForEnriched ==
    (cursor_block # 0 /\ ~full_mode) =>
        \A k \in 1..Len(lookups) :
            \E r \in NewRecords :
                /\ k \in LookupsFor(r[1], r[2])
                /\ ~Enriched(r[1], r[2])

\* the event of the log pair handed to the parsers
PairName == topic_to_name(rawLogs[2].topics[1])

\* both logs of the pair are parsed and the first is positional
PairParsed ==
    /\ decodeState = "done"
    /\ Len(parsed) = 2
    /\ DOMAIN rawLogs[1].decoded.parameters = {}

\* the topic that holds the address of an event (0: the event has none) and
\* the data word that holds its amount, from the event's signature
AddressTopic(name) ==
    CASE name \in {"pegin_btc", "release_request_received", "CallForUser"} -> 1
      [] name = "PegOutDeposit" -> 2
      [] OTHER -> 0

AmountWord(name) ==
    IF name \in {"release_request_received", "CallForUser"} THEN 1 ELSE 0

\* the address and the base-unit amount a record carries
AddressCarried(name, rec) ==
    CASE name = "pegin_btc" -> rec.to_address
      [] name \in {"release_request_received", "CallForUser"} ->
            rec.from_address
      [] name = "PegOutDeposit" -> rec.sender

AmountCarried(name, rec) ==
    CASE name \in {"pegin_btc", "release_request_received"} ->
            rec.value_rbtc.num
      [] name = "CallForUser" -> rec.value_wei
      [] name = "PegOutDeposit" -> rec.amount_wei
      [] name = "PegInRegistered" -> rec.transferred_amount_wei

\* C26: the positional decoder of pegin_btc, release_request_received,
\* CallForUser, PegOutDeposit and PegInRegistered gives back the address (the
\* low 20 bytes of its topic) and the amount in base units that a complete
\* raw log was built from (stated for amounts whose top bit is clear)
DecoderRoundTrip ==
    (PairParsed /\ rawLogs[1] = rawLogs[2]
        /\ PairName \in {"pegin_btc", "release_request_received",
                         "CallForUser", "PegOutDeposit", "PegInRegistered"}
        /\ 2 * ReadWord(rawLogs[1].data, AmountWord(PairName))
              < 16 ^ WordLen) =>
        /\ AddressTopic(PairName) # 0 =>
              AddressCarried(PairName, parsed[1]) =
                  LastChars(rawLogs[1].topics[AddressTopic(PairName) + 1],
                            AddrLen)
        /\ AmountCarried(PairName, parsed[1]) =
               ReadWord(rawLogs[1].data, AmountWord(PairName))

\* where each positional field of a record comes from by the event's
\* signature (its indexed topic or its data word), and its value when that
\* part of the log is missing
Fields(name) ==
    CASE name = "pegin_btc" ->
            <<[name |-> "to_address", part |-> "topic", at |-> 1,
               none |-> <<>>],
              [name |-> "value_rbtc", part |-> "word", at |-> 0,
               none |-> Display(0, 8)]>>
      [] name = "release_request_received" ->
            <<[name |-> "from_address", part |-> "topic", at |-> 1,
               none |-> <<>>],
              [name |-> "value_rbtc", part |-> "word", at |-> 1,
               none |-> Display(0, 18)]>>
      [] name = "CallForUser" ->
            <<[name |-> "from_address", part |-> "topic", at |-> 1,
               none |-> <<>>],
              [name |-> "dest_address", part |-> "topic", at |-> 2,
               none |-> <<>>],
              [name |-> "value_wei", part |-> "word", at |-> 1, none |-> 0],
              [name |-> "value_rbtc", part |-> "word", at |-> 1,
               none |-> Display(0, 18)],
              [name |-> "quote_hash", part |-> "word", at |-> 4,
               none |-> <<>>]>>
      [] name = "PegOutDeposit" ->
            <<[name |-> "quote_hash", part |-> "topic", at |-> 1,
               none |-> <<>>],
              [name |-> "sender", part |-> "topic", at |-> 2, none |-> <<>>],
              [name |-> "amount_wei", part |-> "word", at |-> 0, none |-> 0],
              [name |-> "amount_rbtc", part |-> "word", at |-> 0,
               none |-> Display(0, 18)],
              [name |-> "timestamp", part |-> "word", at |-> 1, none |-> 0]>>
      [] name = "PegOutRefunded" ->
            <<[name |-> "quote_hash", part |-> "topic", at |-> 1,
               none |-> <<>>]>>
      [] name = "Penalized" ->
            <<[name |-> "lp_address", part |-> "word", at |-> 0,
               none |-> <<>>],
              [name |-> "penalty_wei", part |-> "word", at |-> 1, none |-> 0],
              [name |-> "penalty_rbtc", part |-> "word", at |-> 1,
               none |-> Display(0, 18)],
              [name |-> "quote_hash", part |-> "word", at |-> 2,
               none |-> <<>>]>>
      [] name = "PegOutUserRefunded" ->
            <<[name |-> "quote_hash", part |-> "topic", at |-> 1,
               none |-> <<>>],
              [name |-> "value_wei", part |-> "word", at |-> 0, none |-> 0],
              [name |-> "value_rbtc", part |-> "word", at |-> 0,
               none |-> Display(0, 18)],
              [name |-> "user_address", part |-> "word", at |-> 1,
               none |-> <<>>]>>
      [] name = "PegInRegistered" ->
            <<[name |-> "quote_hash", part |-> "topic", at |-> 1,
               none |-> <<>>],
              [name |-> "transferred_amount_wei", part |-> "word", at |-> 0,
               none |-> 0],
              [name |-> "transferred_amount_rbtc", part |-> "word",
               at |-> 0, none |-> Display(0, 18)]>>

\* the part of the log a field comes from is there
Present(log, f) ==
    IF f.part = "topic"
    THEN Len(log.topics) > f.at /\ log.topics[f.at + 1] # <<>>
    ELSE Len(log.data) >= (f.at + 1) * WordLen

\* C27: decoding never partially fails: for every event and every raw log
\* with trailing data or indexed topics missing, the positional decoder
\* returns a record of the usual shape in which every field whose part of
\* the log is missing is zero or empty and every other field is what the
\* decoder returns for the complete log
TruncationTolerated ==
    PairParsed =>
        /\ DOMAIN parsed[1] = DOMAIN parsed[2]
        /\ parsed[1].tx_hash = parsed[2].tx_hash
        /\ parsed[1].block_number = parsed[2].block_number
        /\ \A i \in 1..Len(Fields(PairName)) :
              LET f == Fields(PairName)[i] IN
              parsed[1][f.name] =
                  (IF Present(rawLogs[1], f) THEN parsed[2][f.name]
                                             ELSE f.none)

\* a PegOutDeposit log without its second indexed topic and with a cut second
\* data word was decoded: quote hash and amount as for the complete log,
\* sender empty and timestamp zero
TruncationToleratedWitness ==
    /\ PairParsed
    /\ PairName = "PegOutDeposit"
    /\ Len(rawLogs[1].topics) = 2
    /\ Len(rawLogs[1].data) > WordLen
    /\ Len(rawLogs[1].data) < 2 * WordLen
    /\ parsed[1].quote_hash # <<>>
    /\ parsed[1].amount_wei # 0
    /\ parsed[1].sender = <<>>
    /\ parsed[2].sender # <<>>
    /\ parsed[1].timestamp = 0
    /\ parsed[2].timestamp # 0

\* the logs of the batch whose first topic is a known signature
KnownLog(log) == log.topics # <<>> /\ topic_to_event(log.topics[1]) # ""

SavedLog(log) ==
    /\ KnownLog(log)
    /\ topic_to_event(log.topics[1]) \notin {"PegInRegistered",
                                             "PegOutRefunded"}

\* C28: a raw log whose first topic is not a known signature, whatever its
\* topics list holds, is skipped: the loop does not raise, and at its end the
\* records are those of the other logs and max_block is the highest block of
\* the known logs
UnknownSkipped ==
    /\ decodeState # "raised"
    /\ decodeState = "done" =>
          LET saved == SelectSeq(rawLogs, SavedLog) IN
          /\ parsed = [i \in 1..Len(saved) |->
                         Parse(topic_to_event(saved[i].topics[1]), saved[i])]
          /\ \A i \in 1..Len(rawLogs) :
                KnownLog(rawLogs[i]) => parsedMax >= rawLogs[i].block_number
          /\ \/ parsedMax = MIN_BLOCK
             \/ \E i \in 1..Len(rawLogs) :
                   /\ KnownLog(rawLogs[i])
                   /\ parsedMax = rawLogs[i].block_number

\* C29: the int256 words (the amount of pegin_btc, transferredAmount of
\* PegInRegistered) are decoded as two's-complement signed integers
SignedAmountsDecoded ==
    (PairParsed /\ rawLogs[1] = rawLogs[2]
        /\ PairName \in {"pegin_btc", "PegInRegistered"}) =>
        AmountCarried(PairName, parsed[1]) =
            Signed(ReadWord(rawLogs[1].data, 0))

\* the display field of the records of an event ("" for an event without an
\* amount) and the unit it is expressed in
DisplayField(name) ==
    CASE name \in {"pegin_btc", "release_request_received", "CallForUser",
                   "PegOutUserRefunded"} -> "value_rbtc"
      [] name = "PegOutDeposit" -> "amount_rbtc"
      [] name = "Penalized" -> "penalty_rbtc"
      [] name = "PegInRegistered" -> "transferred_amount_rbtc"
      [] OTHER -> ""

DisplayExp(name) == IF name = "pegin_btc" THEN 8 ELSE 18

\* the fields that hold an amount in base units
RawFields ==
    {"value_sat", "amount_sat", "value_wei", "amount_wei", "penalty_wei",
     "transferred_amount_wei"}

\* C30: every decoded record with an amount carries the amount in base units
\* and the display amount, and the display amount is the base-unit amount
\* divided by 1e8 (satoshi) or 1e18 (wei), on both decode paths (stated for
\* the records of logs that have all their data)
BothAmountsPersisted ==
    decodeState \in {"parse", "done"} =>
        \A i \in 1..Len(parsed) :
            LET name == topic_to_name(rawLogs[i].topics[1]) IN
            (DisplayField(name) # ""
                /\ Len(rawLogs[i].data) = 2 * WordLen) =>
                \E f \in RawFields \cap DOMAIN parsed[i] :
                    parsed[i][DisplayField(name)] =
                        Display(parsed[i][f], DisplayExp(name))

\* C31: the record read from the structured decoded.parameters payload of an
\* event equals the record the positional fallback reads from the topics and
\* data of the same event
StrategiesAgree ==
    (decodeState = "done" /\ Len(parsed) = 2
        /\ DOMAIN rawLogs[1].decoded.parameters # {}
        /\ DOMAIN rawLogs[2].decoded.parameters = {}) =>
        parsed[1] = parsed[2]

\* positions of the records of s that have a non-empty tx_hash no earlier
\* record of s has
FirstOccurrences(s) ==
    {i \in 1..Len(s) :
        /\ s[i].tx_hash # 0
        /\ \A j \in 1..(i - 1) : s[j].tx_hash # s[i].tx_hash}

\* the records of s at the positions in I, in the order of s
SubsequenceAt(s, I) ==
    [k \in 1..Cardinality(I) |->
        s[CHOOSE i \in I : Cardinality({j \in I : j < i}) = k - 1]]

\* C32: dedup_by_tx_hash returns the records of its input that are the first
\* with their non-empty tx_hash, in input order (so each non-empty tx_hash
\* occurs once and a record without tx_hash is dropped), and applying it to
\* its own result changes nothing
DedupKeepsFirst ==
    /\ mStage \in {"dedup_once", "dedup_twice"} =>
        /\ mOut = SubsequenceAt(mD, FirstOccurrences(mD))
        /\ \A k \in Keys(mD) \ {0} :
            Cardinality({i \in 1..Len(mOut) : mOut[i].tx_hash = k}) = 1
        /\ \A i \in 1..Len(mOut) : mOut[i].tx_hash # 0
    /\ mStage = "dedup_twice" => mOut2 = mOut

\* a list with a repeated tx_hash whose two records differ, and a record
\* without tx_hash, has been deduplicated twice
DedupKeepsFirstWitness ==
    /\ mStage = "dedup_twice"
    /\ Len(mD) = 3
    /\ mD[1].tx_hash = 1 /\ mD[1].value = 1
    /\ mD[2].tx_hash = 0
    /\ mD[3].tx_hash = 1 /\ mD[3].value = 2
    /\ mOut = <<mD[1]>>

\* the run before run i that evaluated the rule, and the run before run i
\* that sent a notification for it (0: there is none)
MaxOf(S) == IF S = {} THEN 0 ELSE CHOOSE x \in S : \A y \in S : y <= x

PrevEvaluation(i) == MaxOf({j \in 1..(i - 1) : checks[j].severity # "absent"})

LastSend(i) == MaxOf({j \in 1..(i - 1) : checks[j].send})

\* C33: when a rule is evaluated at the severity of its previous evaluation,
\* warning or critical, the run notifies exactly when that severity's
\* cooldown (minutes x 60) has passed since the last notification sent for
\* the rule, and not as a recovery
CooldownRespected ==
    monitor.mode = "alerts" =>
        \A i \in 1..Len(checks) :
            LET j == PrevEvaluation(i)
                k == LastSend(i)
            IN (j # 0 /\ checks[i].severity \in {WARNING, CRITICAL}
                    /\ checks[i].severity = checks[j].severity) =>
                /\ k # 0
                /\ checks[i].send <=>
                     (checks[i].now_ts - checks[k].now_ts >=
                        DEFAULT_COOLDOWNS(checks[i].severity) * 60)
                /\ ~checks[i].is_recovery

\* a warning is notified, stays quiet two hours later and is notified again
\* after two more hours
CooldownRespectedWitness ==
    /\ monitor.mode = "alerts"
    /\ Len(checks) = 3
    /\ \A i \in 1..3 : checks[i].severity = WARNING
    /\ checks[1].send /\ ~checks[2].send /\ checks[3].send
    /\ checks[2].now_ts - checks[1].now_ts = 7200
    /\ checks[3].now_ts - checks[2].now_ts = 7200

\* C34: two notifications of one severity for a rule, neither a recovery,
\* with no healthy evaluation of the rule between them, are at least that
\* severity's cooldown apart
NoFlappingSpam ==
    monitor.mode = "alerts" =>
        \A i, j \in 1..Len(checks) :
            (i < j /\ checks[i].send /\ checks[j].send
                /\ ~checks[i].is_recovery /\ ~checks[j].is_recovery
                /\ checks[i].severity = checks[j].severity
                /\ \A k \in (i + 1)..(j - 1) :
                       checks[k].severity # HEALTHY) =>
                checks[j].now_ts - checks[i].now_ts >=
                    DEFAULT_COOLDOWNS(checks[i].severity) * 60

\* C35: a healthy evaluation is notified, as a recovery, exactly when the
\* stored severity of the rule, which is that of its previous evaluation, is
\* warning or critical; a healthy evaluation after a healthy one, or of a rule
\* without stored state, sends nothing
RecoveryOnce ==
    monitor.mode = "alerts" =>
        \A i \in 1..Len(checks) :
            LET j == PrevEvaluation(i) IN
            checks[i].severity = HEALTHY =>
                /\ checks[i].prev.known <=> j # 0
                /\ j # 0 => checks[i].prev.severity = checks[j].severity
                /\ checks[i].send <=>
                     (j # 0 /\ checks[j].severity \in {WARNING, CRITICAL})
                /\ checks[i].is_recovery <=> checks[i].send

\* a critical rule recovers, stays healthy and turns warning
RecoveryOnceWitness ==
    /\ monitor.mode = "alerts"
    /\ Len(checks) = 4
    /\ checks[1].severity = CRITICAL /\ checks[1].send
    /\ checks[2].severity = HEALTHY /\ checks[2].send /\ checks[2].is_recovery
    /\ checks[3].severity = HEALTHY /\ ~checks[3].send
    /\ checks[4].severity = WARNING /\ checks[4].send

\* C36: an evaluation at a severity above the stored one is notified whatever
\* time has passed, not as a recovery; a rule without stored state is
\* notified exactly when its severity is not healthy, not as a recovery
EscalationImmediate ==
    monitor.mode = "alerts" =>
        \A i \in 1..Len(checks) :
            LET prev == checks[i].prev IN
            checks[i].severity # "absent" =>
                /\ (prev.known
                        /\ SEVERITY_ORDER(checks[i].severity) >
                               SEVERITY_ORDER(prev.severity)) =>
                        (checks[i].send /\ ~checks[i].is_recovery)
                /\ ~prev.known =>
                        /\ checks[i].send <=> checks[i].severity # HEALTHY
                        /\ ~checks[i].is_recovery

\* a warning that was notified turns critical ten minutes later
EscalationImmediateWitness ==
    /\ monitor.mode = "alerts"
    /\ Len(checks) = 2
    /\ ~checks[1].prev.known
    /\ checks[1].severity = WARNING /\ checks[1].send
    /\ checks[2].severity = CRITICAL /\ checks[2].send
    /\ ~checks[2].is_recovery
    /\ checks[2].now_ts - checks[1].now_ts = 600

\* the run before run i that sent the daily summary (0: there is none)
LastSummary(i) == MaxOf({j \in 1..(i - 1) : checks[j].summary})

\* C37: a run sends the daily summary exactly when 86400 seconds have passed
\* since the time recorded by the last run that sent it (0 when none did), so
\* two summaries are at least 86400 seconds apart
DailySummaryOncePerDay ==
    monitor.mode = "alerts" =>
        /\ \A i \in 1..Len(checks) :
            LET k == LastSummary(i)
                last_sent == IF k = 0 THEN 0 ELSE checks[k].now_ts
            IN /\ checks[i].summary <=> checks[i].now_ts - last_sent >= 86400
               /\ checks[i].summary => dailySummary >= checks[i].now_ts
        /\ \A i, j \in 1..Len(checks) :
            (i < j /\ checks[i].summary /\ checks[j].summary) =>
                checks[j].now_ts - checks[i].now_ts >= 86400
        /\ dailySummary = IF LastSummary(Len(checks) + 1) = 0 THEN 0
                          ELSE checks[LastSummary(Len(checks) + 1)].now_ts

\* the first run sends the summary, a run an hour later does not, a run a
\* day after that does
DailySummaryOncePerDayWitness ==
    /\ monitor.mode = "alerts"
    /\ Len(checks) = 3
    /\ checks[1].summary /\ ~checks[2].summary /\ checks[3].summary
    /\ checks[2].now_ts - checks[1].now_ts = 3600
    /\ checks[3].now_ts - checks[2].now_ts = 86400

\* list s is list l without some of its first entries
IsSuffix(s, l) ==
    Len(s) <= Len(l) /\ s = SubSeq(l, Len(l) - Len(s) + 1, Len(l))

\* C38: after every run the persisted history has at most MAX_HISTORY
\* entries, ends with the entry the run appended, and is the history the run
\* loaded plus that entry without some of its oldest entries (so it is in
\* append order)
HistoryRollingWindow ==
    (monitor.mode = "routes" /\ fetches # <<>>) =>
        LET f == fetches[Len(fetches)]
            entry == HistoryEntry(IF f.ok THEN f.enabled ELSE {}, f.now)
        IN /\ Len(existing.history) <= MAX_HISTORY
           /\ existing.history # <<>>
           /\ existing.history[Len(existing.history)] = entry
           /\ IsSuffix(existing.history, Append(f.before.history, entry))

\* the providers a list of changes names with a kind of change, and how often
Named(changes, change) ==
    {changes[i].provider : i \in {j \in 1..Len(changes) :
                                    changes[j].change = change}}

Times(changes, pid, change) ==
    Cardinality({i \in 1..Len(changes) :
                    changes[i].provider = pid /\ changes[i].change = change})

\* C39: a run records one "added" change for each provider id of the run that
\* the persisted list lacks, one "removed" change for each persisted id the
\* run lacks, and nothing else; a run at which the providers enabled are
\* those enabled at the run before records no change, also when one of the
\* two requests failed
ProviderChangesExact ==
    monitor.mode = "routes" =>
        \A i \in 1..Len(fetches) :
            LET f == fetches[i]
                prev == f.before.swap_provider_ids
                curr == IF f.ok THEN f.enabled ELSE {}
            IN /\ Named(f.new_changes, "added") = curr \ prev
               /\ Named(f.new_changes, "removed") = prev \ curr
               /\ \A pid \in ProviderIds :
                    Times(f.new_changes, pid, "added")
                        + Times(f.new_changes, pid, "removed") <= 1
               /\ Len(f.new_changes) =
                    Cardinality(curr \ prev) + Cardinality(prev \ curr)
               /\ (i > 1 /\ f.enabled = fetches[i - 1].enabled) =>
                    f.new_changes = <<>>

====
